---- MODULE Spec2Model ----
(***************************************************************************)
(* A model of the discovery engine of python-environment-tools:            *)
(*   crates/pet-cache         Cache::store / Cache::get_all_environments   *)
(*   crates/pet-fs            get_mtime_ctime                              *)
(*   crates/pet-python-utils  find_executable(s), the ignore list          *)
(*   crates/pet               find_and_report_envs and its helpers         *)
(*                                                                         *)
(* Conventions.  A path is a sequence of component names, so that join,    *)
(* Path::ends_with and file_name are computed, not assumed.  Option<T> is  *)
(* a sequence of length 0 (None) or 1 (Some).  A Vec is a sequence.        *)
(***************************************************************************)
EXTENDS Integers, Sequences, FiniteSets, TLC

VARIABLES
    \* ---- the file system the program runs on
    dirs,             \* the paths that are directories
    files,            \* the paths that are regular files
    live,             \* path -> Option<MTimeCTime>: what metadata() gives now
    \* ---- pet-cache: struct Cache and its directory
    has_cache,        \* find_and_report_envs was given Some(cache)
    cache_is_dirty,   \* Cache.cache_is_dirty
    environments,     \* Cache.environments (the in-memory mirror)
    disk,             \* cache_dir: file stem (the hash) -> file content
    \* ---- the caller of the cache: the last store and the last read
    last_store,       \* Option<[env, dirty_before, stored, live]> of the last store,
                      \* live being the times of env's symlinks when it ran
    latest,           \* per identity key, the environment last written and the times then
    retval,           \* Option<Vec<PythonEnvironment>> of the last read
    \* ---- the batching fold of the workspace scan (BatchSpec)
    fold_input,       \* the subdirectories the reader yields
    fold_pos,         \* how many of them the fold has consumed
    fold_acc,         \* the fold's accumulator f
    \* ---- directory-mode extraction on its own (ExtractSpec)
    ex_path,          \* Option<path>: the env_path find_executables is given
    ex_result,        \* Option<[exes, reads]>: what the call returned and read
    \* ---- find_and_report_envs: what it is called with
    locators,         \* the registry: locator names in registration order
    search_paths,     \* configuration.search_paths
    environment_paths,\* configuration.environment_paths
    path_entries,     \* get_search_paths_from_env_variables()
    workon_home,      \* Option<path>: WORKON_HOME
    \* ---- find_and_report_envs: the calling thread
    main_pc,          \* "start", "validating", "refresh", "searching", "returned"
    validation_time,  \* summary.validation_time: "zero" or "measured"
    search_time,      \* summary.search_time: "zero" or "measured"
    \* ---- Phase A: report_validated_environments
    cached,           \* the environments get_all_environments() returned
    vtask,            \* per cached environment: "none", "spawned" or "done"
    \* ---- Phase B, task 1: the locators' find, then the detached probe
    sweep_pc,         \* "idle", "spawned", "finding", "done"
    find_pc,          \* per locator: "idle", "spawned", "done"
    conda_pc,         \* the detached thread: "idle", "running", "done"
    \* ---- Phase B, task 2: the global roots
    glob_pc,          \* "idle", "spawned", "scanning", "done"
    groots,           \* the assembled list of global roots
    gtask,            \* per chunk of groots: "spawned" or "done"
    \* ---- Phase B, task 3: the workspace folders
    ws_pc,            \* "idle", "spawned", "running", "done"
    ws_stack,         \* the frames of the recursive function, innermost last
    \* ---- what the reporter was given, per reporting task, in its order
    reports,
    \* ---- the candidate executables each scanning task extracted, in order
    scanned,
    \* ---- the Poetry locator and the tasks calling it
    poetry_is_file,   \* poetry_executable names a file
    project_dirs,
    searched,
    poetry_envs,      \* Poetry.environments
    poetry_manager,   \* Poetry.manager
    discoveries,      \* runs of the discovery since configure
    thr,              \* per calling task: [pc, made, listed, answer]
    lock_holder,      \* per mutex: the task holding it, or "free"
    \* ---- a file name put to is_python_executable_name, and the answer
    exe_name, exe_accepted,
    \* ---- calls of the cache in progress in different threads
    readers,          \* per get_all_environments call: [pc, read, after_store, returned]
    storer,           \* the store call: [pc, env]

    \* ---- the directories each scan touched
    ws_probed,        \* given to find_executable by the workspace scan
    ws_enumerated,    \* given to fs::read_dir by the workspace scan
    glob_probed,      \* given to find_executables by the global-root scan
    glob_enumerated   \* given to fs::read_dir by the global-root scan

cache_vars == <<has_cache, cache_is_dirty, environments, disk, last_store, latest, retval>>
fs_vars == <<dirs, files, live>>
fold_vars == <<fold_input, fold_pos, fold_acc>>
ex_vars == <<ex_path, ex_result>>
name_vars == <<exe_name, exe_accepted>>
race_vars == <<readers, storer>>
poetry_vars == <<poetry_is_file, project_dirs, searched, poetry_envs, poetry_manager,
                 discoveries, thr, lock_holder>>
config_vars == <<locators, search_paths, environment_paths, path_entries, workon_home>>
phase_a_vars == <<cached, vtask>>
sweep_vars == <<sweep_pc, find_pc, conda_pc>>
glob_vars == <<glob_pc, groots, gtask>>
ws_vars == <<ws_pc, ws_stack>>
main_vars == <<main_pc, validation_time, search_time>>
log_vars == <<reports, scanned, ws_probed, ws_enumerated, glob_probed, glob_enumerated>>
engine_vars == <<config_vars, main_vars, phase_a_vars, sweep_vars, glob_vars, ws_vars, log_vars>>

(***************************************************************************)
(* Sequences and options                                                   *)
(***************************************************************************)
None == <<>>

Some(x) == <<x>>

IsSome(o) == Len(o) = 1

Range(s) == {s[i] : i \in 1..Len(s)}

RECURSIVE Concat(_)
Concat(ss) == IF ss = <<>> THEN <<>> ELSE Head(ss) \o Concat(Tail(ss))

(***************************************************************************)
(* Paths                                                                   *)
(***************************************************************************)
Join(p, name) == Append(p, name)

\* Path::ends_with: the last components of p are those of the suffix.
EndsWith(p, suffix) ==
    /\ Len(suffix) <= Len(p)
    /\ SubSeq(p, Len(p) - Len(suffix) + 1, Len(p)) = suffix

IsPrefixOf(p, q) == Len(p) <= Len(q) /\ SubSeq(q, 1, Len(p)) = p

Exists(p) == p \in dirs \/ p \in files

(***************************************************************************)
(* The world of the model: names, paths, environments                      *)
(***************************************************************************)
\* Every component name that occurs in a path of the model, with the code
\* that stands for its bytes.
Names ==
    <<"opt", "venv", "bin", "python", "python3.10", "python3", "ws", "proj", "app",
      "node_modules", ".git", "usr", "pythonw", "home", "tools",
      ".pyenv", "shims", "conda", "poetry", "readme", "Scripts", "envs", "dj",
      "conda-meta", "big", "d01", "d02", "d03", "d04", "d05", "d06", "d07", "d08",
      "d09", "d10", "d11", "d12", "d13", "d14", "d15", "d16", "d17", "d18", "d19",
      "d20", "d21">>

NameCode(name) == CHOOSE i \in 1..Len(Names) : Names[i] = name

VenvExe == <<"opt", "venv", "bin", "python">>
VenvExe3 == <<"opt", "venv", "bin", "python3">>
ProjExe == <<"ws", "proj", "bin", "python">>
PoetryExe == <<"home", "bin", "poetry">>
CondaPrefix == <<"opt", "conda">>

\* pet_core::python_environment::PythonEnvironment, the fields the engine and
\* the cache read.
Env(category, executable, prefix, manager, symlinks, times) ==
    [category |-> category, executable |-> executable, prefix |-> prefix,
     manager |-> manager, symlinks |-> symlinks, times |-> times]

PoetryManager == [executable |-> PoetryExe, tool |-> "Poetry"]

VenvEnv == Env("Venv", Some(VenvExe), Some(<<"opt", "venv">>), None,
               Some(<<VenvExe, VenvExe3>>), None)
PoetryEnv == Env("Poetry", Some(ProjExe), Some(<<"ws", "proj">>),
                 Some(PoetryManager), Some(<<ProjExe>>), None)
ProjVenvEnv == Env("Venv", Some(ProjExe), Some(<<"ws", "proj">>), None, None, None)
CondaEnv == Env("Conda", None, Some(CondaPrefix), None, None, None)
\* An environment with neither executable nor prefix: it has no identity key.
KeylessEnv == Env("System", None, None, None, None, None)

(***************************************************************************)
(* pet-fs: times.rs                                                        *)
(***************************************************************************)
MTimeCTime(mtime, ctime) == [mtime |-> mtime, ctime |-> ctime]

\* What path.metadata() gives: None when the call fails, else the optional
\* modified() and created() values.
Metadata(tbl, p) == IF p \in DOMAIN tbl THEN tbl[p] ELSE None

get_mtime_ctime(tbl, p) ==
    LET md == Metadata(tbl, p)
    IN  IF IsSome(md) /\ IsSome(md[1].mtime) /\ IsSome(md[1].ctime)
        THEN Some(MTimeCTime(md[1].mtime[1], md[1].ctime[1]))
        ELSE None

(***************************************************************************)
(* pet-cache: hash.rs and lib.rs                                           *)
(***************************************************************************)
RECURSIVE HashBytes(_, _)
HashBytes(p, h) ==
    IF p = <<>> THEN h
    ELSE HashBytes(Tail(p), (h * 31 + NameCode(Head(p))) % 65536)

compute_hash_of_length(value) == Len(value)

\* A stable hash of the path's bytes.  DefaultHasher is SipHash over 64 bits;
\* the model keeps what the cache relies on: the value is a function of the
\* bytes alone.  format!("{:x}") is one-to-one, so the number names the file.
compute_hash(value) == HashBytes(value, 7)

\* pet_core::python_environment::get_environment_key: the executable, else
\* the prefix, else nothing.
get_environment_key(env) ==
    IF IsSome(env.executable) THEN env.executable
    ELSE IF IsSome(env.prefix) THEN env.prefix
    ELSE None

update_mtimes_ctimes(tbl, env) ==
    IF IsSome(env.symlinks)
    THEN LET readable == {p \in Range(env.symlinks[1]) : IsSome(get_mtime_ctime(tbl, p))}
             times == [p \in readable |-> get_mtime_ctime(tbl, p)[1]]
         IN  IF readable # {} THEN [env EXCEPT !.times = Some(times)] ELSE env
    ELSE env

\* The file store() writes: cache_dir.join(hash) with the extension json.
CacheFile(key) == [stem |-> compute_hash(key), ext |-> "json"]

\* serde_json::to_string_pretty / from_str: a file holds a record, or text
\* that does not decode.
Serialized(env) == [body |-> Some(env)]
CorruptFile == [body |-> None]
Deserialize(content) == content.body

ToAsciiLowercase(ext) == IF ext = "JSON" THEN "json" ELSE ext

RECURSIVE ReadDirOrder(_)
\* fs::read_dir(cache_dir): the entries, here in the order of their stems.
ReadDirOrder(entries) ==
    IF entries = {} THEN <<>>
    ELSE LET first == CHOOSE n \in entries : \A m \in entries : n.stem <= m.stem
         IN  <<first>> \o ReadDirOrder(entries \ {first})

RECURSIVE ReadEntriesUntilCorrupt(_, _)
ReadEntriesUntilCorrupt(d, names) ==
    IF names = <<>> THEN <<>>
    ELSE LET n == Head(names)
         IN  IF ToAsciiLowercase(n.ext) # "json"
             THEN ReadEntriesUntilCorrupt(d, Tail(names))
             ELSE IF IsSome(Deserialize(d[n]))
             THEN <<Deserialize(d[n])[1]>> \o ReadEntriesUntilCorrupt(d, Tail(names))
             ELSE <<>>

RECURSIVE ReadEntries(_, _)
\* The loop of get_all_environments over the directory's entries.
ReadEntries(d, names) ==
    IF names = <<>> THEN <<>>
    ELSE LET n == Head(names)
             rest == ReadEntries(d, Tail(names))
         IN  IF ToAsciiLowercase(n.ext) = "json" /\ IsSome(Deserialize(d[n]))
             THEN <<Deserialize(d[n])[1]>> \o rest
             ELSE rest

ReadCacheDir(d) == ReadEntries(d, ReadDirOrder(DOMAIN d))

\* What serializing and fs::write can come to: the file is written; nothing
\* is touched (to_string_pretty fails, or the file cannot be opened); or the
\* file was created or truncated by fs::write and the write then failed.
WriteOutcomes == {"written", "refused", "torn"}

\* The directory after fs::write(cache_file, json) with that outcome.
FsWrite(d, name, content, outcome) ==
    CASE outcome = "written" ->
            [n \in DOMAIN d \cup {name} |-> IF n = name THEN content ELSE d[n]]
      [] outcome = "torn" ->
            [n \in DOMAIN d \cup {name} |-> IF n = name THEN CorruptFile ELSE d[n]]
      [] outcome = "refused" -> d

\* Cache::store, as the new (environments, disk, cache_is_dirty).
StoreNoFlag(mirror, d, dirty, tbl, env, outcome) ==
    LET key == get_environment_key(env)
        record == update_mtimes_ctimes(tbl, env)
    IN  IF IsSome(key)
        THEN [environments |-> Append(mirror, env),
              disk |-> FsWrite(d, CacheFile(key[1]), Serialized(record), outcome),
              cache_is_dirty |-> dirty]
        ELSE [environments |-> Append(mirror, env), disk |-> d,
              cache_is_dirty |-> dirty]

Store(mirror, d, dirty, tbl, env, outcome) ==
    LET key == get_environment_key(env)
        record == update_mtimes_ctimes(tbl, env)
    IN  IF IsSome(key)
        THEN [environments |-> Append(mirror, env),
              disk |-> FsWrite(d, CacheFile(key[1]), Serialized(record), outcome),
              cache_is_dirty |-> IF outcome = "written" THEN TRUE ELSE dirty]
        ELSE [environments |-> Append(mirror, env), disk |-> d,
              cache_is_dirty |-> dirty]

\* Cache::get_all_environments, as the new (environments, cache_is_dirty) and
\* the value returned.
GetAllEnvironments(mirror, d, dirty) ==
    IF ~dirty
    THEN [environments |-> mirror, cache_is_dirty |-> dirty, returned |-> mirror]
    ELSE [environments |-> ReadCacheDir(d), cache_is_dirty |-> FALSE,
          returned |-> ReadCacheDir(d)]


(***************************************************************************)
(* pet-python-utils: executable.rs                                         *)
(***************************************************************************)
\* The characters of a component name.
Chars(name) ==
    CASE
        name = "opt" -> <<"o", "p", "t">> []
        name = "venv" -> <<"v", "e", "n", "v">> []
        name = "bin" -> <<"b", "i", "n">> []
        name = "python" -> <<"p", "y", "t", "h", "o", "n">> []
        name = "python3" -> <<"p", "y", "t", "h", "o", "n", "3">> []
        name = "ws" -> <<"w", "s">> []
        name = "proj" -> <<"p", "r", "o", "j">> []
        name = "app" -> <<"a", "p", "p">> []
        name = "node_modules" -> <<"n", "o", "d", "e", "_", "m", "o", "d", "u", "l", "e", "s">> []
        name = ".git" -> <<".", "g", "i", "t">> []
        name = "usr" -> <<"u", "s", "r">> []
        name = "python3.10" -> <<"p", "y", "t", "h", "o", "n", "3", ".", "1", "0">> []
        name = "pythonw" -> <<"p", "y", "t", "h", "o", "n", "w">> []
        name = "home" -> <<"h", "o", "m", "e">> []
        name = "tools" -> <<"t", "o", "o", "l", "s">> []
        name = ".pyenv" -> <<".", "p", "y", "e", "n", "v">> []
        name = "shims" -> <<"s", "h", "i", "m", "s">> []
        name = "conda" -> <<"c", "o", "n", "d", "a">> []
        name = "poetry" -> <<"p", "o", "e", "t", "r", "y">> []
        name = "readme" -> <<"r", "e", "a", "d", "m", "e">> []
        name = "Scripts" -> <<"S", "c", "r", "i", "p", "t", "s">> []
        name = "envs" -> <<"e", "n", "v", "s">> []
        name = "dj" -> <<"d", "j">> []
        name = "conda-meta" -> <<"c", "o", "n", "d", "a", "-", "m", "e", "t", "a">>

Digits == {"0", "1", "2", "3", "4", "5", "6", "7", "8", "9"}

ToLowerChar(c) == IF c = "S" THEN "s" ELSE IF c = "P" THEN "p" ELSE c

ToLowercase(cs) == [i \in 1..Len(cs) |-> ToLowerChar(cs[i])]

StartsWith(cs, prefix) == Len(prefix) <= Len(cs) /\ SubSeq(cs, 1, Len(prefix)) = prefix

\* cs is in (\d+\.?)* : digits and dots, every dot right after a digit.
IsVersionTail(cs) ==
    \A i \in 1..Len(cs) :
        \/ cs[i] \in Digits
        \/ cs[i] = "." /\ i > 1 /\ cs[i - 1] \in Digits

\* UNIX_EXE.is_match: python(\d+\.?)*$ matches somewhere in cs (the regex is
\* anchored at its end only).
UnixExeIsMatch(cs) ==
    \E i \in 1..Len(cs) :
        /\ i + 5 <= Len(cs)
        /\ SubSeq(cs, i, i + 5) = Chars("python")
        /\ IsVersionTail(SubSeq(cs, i + 6, Len(cs)))

\* is_python_executable_name on the characters of the file name.
IsPythonExecutableName(file_name) ==
    LET name == ToLowercase(file_name)
    IN  /\ StartsWith(name, Chars("python"))
        /\ UnixExeIsMatch(name)

is_python_executable_name(exe) == IsPythonExecutableName(Chars(exe[Len(exe)]))

RECURSIVE SortPaths(_)
\* The paths of ps in a fixed order (by length, then name by name).
SortPaths(ps) ==
    IF ps = {} THEN <<>>
    ELSE LET least == CHOOSE p \in ps : \A q \in ps :
                        \/ Len(p) < Len(q)
                        \/ Len(p) = Len(q) /\
                           \A k \in 1..Len(p) :
                              (\A j \in 1..(k - 1) : p[j] = q[j]) =>
                                  NameCode(p[k]) <= NameCode(q[k])
         IN  <<least>> \o SortPaths(ps \ {least})

\* fs::read_dir(d): the entries of d, in a fixed order; nothing when d is no
\* directory (the call fails).
ReadDir(ds, fs, d) ==
    IF d \in ds
    THEN SortPaths({p \in ds \cup fs : Len(p) = Len(d) + 1 /\ IsPrefixOf(d, p)})
    ELSE <<>>

find_executable_python3_first(ds, fs, env_path) ==
    LET candidates == <<Join(Join(env_path, "bin"), "python3"),
                        Join(Join(env_path, "bin"), "python"),
                        Join(env_path, "python3"),
                        Join(env_path, "python")>>
        found == SelectSeq(candidates, LAMBDA c : c \in ds \cup fs)
    IN  IF found = <<>> THEN None ELSE Some(found[1])

\* find_executable (unix): the first of the four locations that exists.
find_executable(ds, fs, env_path) ==
    LET candidates == <<Join(Join(env_path, "bin"), "python"),
                        Join(Join(env_path, "bin"), "python3"),
                        Join(env_path, "python"),
                        Join(env_path, "python3")>>
        found == SelectSeq(candidates, LAMBDA c : c \in ds \cup fs)
    IN  IF found = <<>> THEN None ELSE Some(found[1])

find_executables_unguarded(ds, fs, env_path) ==
    IF EndsWith(env_path, <<".pyenv", "shims">>) \/ EndsWith(env_path, <<".DS_Store">>)
    THEN [exes |-> <<>>, reads |-> <<>>]
    ELSE LET target == IF Join(env_path, "bin") \in ds \cup fs
                       THEN Join(env_path, "bin") ELSE env_path
         IN  [exes |-> SelectSeq(ReadDir(ds, fs, target), is_python_executable_name),
              reads |-> <<target>>]

\* find_executables (unix), as the executables returned and the directories
\* it called fs::read_dir on.
find_executables(ds, fs, env_path) ==
    IF EndsWith(env_path, <<".pyenv", "shims">>) \/ EndsWith(env_path, <<".DS_Store">>)
    THEN [exes |-> <<>>, reads |-> <<>>]
    ELSE LET target == IF Join(env_path, "bin") \in ds \cup fs
                       THEN Join(env_path, "bin") ELSE env_path
         IN  IF \/ Join(target, "python") \in ds \cup fs
                \/ Join(target, "python3") \in ds \cup fs
                \/ EndsWith(target, <<"bin">>)
             THEN [exes |-> SelectSeq(ReadDir(ds, fs, target), is_python_executable_name),
                   reads |-> <<target>>]
             ELSE [exes |-> <<>>, reads |-> <<>>]

folders_to_ignore ==
    <<"node_modules", ".git", ".tox", ".nox", ".hypothesis", ".ipynb_checkpoints",
      ".eggs", ".coverage", ".cache", ".pyre", ".ptype", ".pytest_cache",
      "__pycache__", "__pypackages__", ".mypy_cache", "cython_debug", "env.bak",
      "venv.bak", "Scripts", "bin">>

should_search_everywhere(path) == Len(path) >= 0

\* should_search_for_environments_in_path: the last component is not on the
\* ignore list.
should_search_for_environments_in_path(path) ==
    ~ \E i \in 1..Len(folders_to_ignore) : EndsWith(path, <<folders_to_ignore[i]>>)

(***************************************************************************)
(* pet: find.rs, the batching fold of the workspace scan                   *)
(***************************************************************************)
BatchSize == 20

FoldStepOffByOne(f, a) ==
    IF f = <<>> THEN <<<<a>>>>
    ELSE LET last_item == f[Len(f)]
         IN  IF Len(last_item) = 0 \/ Len(last_item) <= BatchSize
             THEN [f EXCEPT ![Len(f)] = Append(last_item, a)]
             ELSE Append(f, <<a>>)

\* The closure given to reader.fold(vec![], ...): one more subdirectory a.
FoldStep(f, a) ==
    IF f = <<>> THEN <<<<a>>>>
    ELSE LET last_item == f[Len(f)]
         IN  IF Len(last_item) = 0 \/ Len(last_item) < BatchSize
             THEN [f EXCEPT ![Len(f)] = Append(last_item, a)]
             ELSE Append(f, <<a>>)

RECURSIVE Fold(_, _)
Fold(f, reader) ==
    IF reader = <<>> THEN f ELSE Fold(FoldStep(f, Head(reader)), Tail(reader))

\* The batches of one root's subdirectories.
Batches(reader) == Fold(<<>>, reader)

(***************************************************************************)
(* The Locator contract, and the three locators of the model               *)
(***************************************************************************)
UsrPython3 == <<"usr", "bin", "python3">>

SystemEnv == Env("System", Some(UsrPython3), None, None, Some(<<UsrPython3>>), None)

\* Locator::supported_categories
supported_categories(loc) ==
    CASE loc = "poetry" -> <<"Poetry">>
      [] loc = "venv" -> <<"Venv">>
      [] loc = "system" -> <<"System">>
      [] loc = "homevenv" -> <<"Venv">>

\* Locator::from (the contract's try_from).  poetry answers for the
\* executables among the symlinks of the environments it knows; venv for any
\* <prefix>/bin/python outside /usr; system for /usr/bin/python3; homevenv
\* for the <prefix>/bin/python of the global virtualenvs under /home/envs.
try_from(loc, exe) ==
    CASE loc = "poetry" ->
            IF IsSome(PoetryEnv.symlinks) /\ exe \in Range(PoetryEnv.symlinks[1])
            THEN Some(PoetryEnv) ELSE None
      [] loc = "venv" ->
            IF exe = VenvExe THEN Some(VenvEnv)
            ELSE IF EndsWith(exe, <<"bin", "python">>) /\ exe[1] # "usr"
            THEN Some(Env("Venv", Some(exe), Some(SubSeq(exe, 1, Len(exe) - 2)),
                          None, None, None))
            ELSE None
      [] loc = "system" ->
            IF exe = UsrPython3 THEN Some(SystemEnv) ELSE None
      [] loc = "homevenv" ->
            IF EndsWith(exe, <<"bin", "python">>) /\ IsPrefixOf(<<"home", "envs">>, exe)
            THEN Some(Env("Venv", Some(exe), Some(SubSeq(exe, 1, Len(exe) - 2)),
                          None, None, None))
            ELSE None

\* The environments the locator's own discovery knows.
found_environments(loc) ==
    CASE loc = "poetry" -> <<PoetryEnv>>
      [] loc = "venv" -> <<>>
      [] loc = "system" -> <<SystemEnv>>
      [] loc = "homevenv" -> <<>>

ManagerReport(manager) == [kind |-> "manager", manager |-> Some(manager), env |-> None]

EnvironmentReport(env) == [kind |-> "environment", manager |-> None, env |-> Some(env)]

RECURSIVE ReportFound(_)
\* Locator::find: for every environment found, its manager and then itself.
ReportFound(envs) ==
    IF envs = <<>> THEN <<>>
    ELSE LET e == Head(envs)
         IN  (IF IsSome(e.manager) THEN <<ManagerReport(e.manager[1])>> ELSE <<>>)
                \o <<EnvironmentReport(e)>> \o ReportFound(Tail(envs))

find(loc) == ReportFound(found_environments(loc))

(***************************************************************************)
(* pet: find.rs                                                            *)
(***************************************************************************)
MaxDepth == 1

locator_map_get_first(registry, category) ==
    LET declaring == {i \in 1..Len(registry) :
                         category \in Range(supported_categories(registry[i]))}
    IN  IF declaring = {} THEN None
        ELSE Some(registry[CHOOSE i \in declaring : \A j \in declaring : i <= j])

\* locator_map.get(&category): the map is filled in registration order, a
\* later insert replacing an earlier one.
locator_map_get(registry, category) ==
    LET declaring == {i \in 1..Len(registry) :
                         category \in Range(supported_categories(registry[i]))}
    IN  IF declaring = {} THEN None
        ELSE Some(registry[CHOOSE i \in declaring : \A j \in declaring : j <= i])

times_changed_or_unreadable(tbl, env) ==
    /\ IsSome(env.times)
    /\ \E executable \in DOMAIN env.times[1] :
        LET cached_times == env.times[1][executable]
            new_times == get_mtime_ctime(tbl, executable)
        IN  \/ ~IsSome(new_times)
            \/ cached_times.mtime # new_times[1].mtime
            \/ cached_times.ctime # new_times[1].ctime

\* The loop over env.times: some recorded executable's readable live times
\* differ from the recorded ones.
times_changed_ctime_only(tbl, env) ==
    /\ IsSome(env.times)
    /\ \E executable \in DOMAIN env.times[1] :
        LET cached_times == env.times[1][executable]
            new_times == get_mtime_ctime(tbl, executable)
        IN  /\ IsSome(new_times)
            /\ cached_times.ctime # new_times[1].ctime

\* The comparison in report_validated_environments: some recorded executable
\* has readable times that differ from the recorded ones.
times_changed(tbl, env) ==
    /\ IsSome(env.times)
    /\ \E executable \in DOMAIN env.times[1] :
        LET cached_times == env.times[1][executable]
            new_times == get_mtime_ctime(tbl, executable)
        IN  /\ IsSome(new_times)
            /\ \/ cached_times.mtime # new_times[1].mtime
               \/ cached_times.ctime # new_times[1].ctime

validate_environment_as_cached(registry, tbl, env) ==
    LET locator == locator_map_get(registry, env.category)
    IN  IF ~IsSome(locator) THEN <<>>
        ELSE IF times_changed(tbl, env) THEN <<>>
        ELSE LET found == try_from(locator[1], env.executable[1])
             IN  IF ~IsSome(found) THEN <<>>
                 ELSE (IF IsSome(env.manager)
                       THEN <<ManagerReport(env.manager[1])>> ELSE <<>>)
                        \o <<EnvironmentReport(env)>>

\* The task report_validated_environments spawns for one cached environment
\* that has an executable: the reporter calls it makes.
validate_environment(registry, tbl, env) ==
    LET locator == locator_map_get(registry, env.category)
    IN  IF ~IsSome(locator) THEN <<>>
        ELSE IF times_changed(tbl, env) THEN <<>>
        ELSE LET found == try_from(locator[1], env.executable[1])
             IN  IF ~IsSome(found) THEN <<>>
                 ELSE (IF IsSome(found[1].manager)
                       THEN <<ManagerReport(found[1].manager[1])>> ELSE <<>>)
                        \o <<EnvironmentReport(found[1])>>

RECURSIVE identify_python_environment_using_locators(_, _)
\* crate::locators: the first locator, in registration order, whose try_from
\* answers.
identify_python_environment_using_locators(registry, exe) ==
    IF registry = <<>> THEN None
    ELSE LET found == try_from(Head(registry), exe)
         IN  IF IsSome(found) THEN found
             ELSE identify_python_environment_using_locators(Tail(registry), exe)

RECURSIVE identify_python_executables_until_unknown(_, _)
identify_python_executables_until_unknown(registry, executables) ==
    IF executables = <<>> THEN <<>>
    ELSE LET env == identify_python_environment_using_locators(registry, Head(executables))
         IN  IF IsSome(env)
             THEN <<EnvironmentReport(env[1])>>
                      \o identify_python_executables_until_unknown(registry, Tail(executables))
             ELSE <<>>

RECURSIVE identify_python_executables_not_found_before(_, _)
identify_python_executables_not_found_before(registry, executables) ==
    IF executables = <<>> THEN <<>>
    ELSE LET env == identify_python_environment_using_locators(registry, Head(executables))
             rest == identify_python_executables_not_found_before(registry, Tail(executables))
             known == \E k \in 1..Len(registry) :
                          env[1] \in Range(found_environments(registry[k]))
         IN  IF IsSome(env) /\ ~known THEN <<EnvironmentReport(env[1])>> \o rest ELSE rest

RECURSIVE identify_python_executables_using_locators(_, _)
\* The reporter calls made for a list of candidate executables.
identify_python_executables_using_locators(registry, executables) ==
    IF executables = <<>> THEN <<>>
    ELSE LET env == identify_python_environment_using_locators(registry, Head(executables))
             rest == identify_python_executables_using_locators(registry, Tail(executables))
         IN  IF IsSome(env) THEN <<EnvironmentReport(env[1])>> \o rest ELSE rest

RECURSIVE FlatMapOption(_, _, _)
FlatMapOption(ds, fs, paths) ==
    IF paths = <<>> THEN <<>>
    ELSE find_executable(ds, fs, Head(paths)) \o FlatMapOption(ds, fs, Tail(paths))

RECURSIVE FlatMapExecutables(_, _, _)
FlatMapExecutables(ds, fs, paths) ==
    IF paths = <<>> THEN [exes |-> <<>>, reads |-> <<>>]
    ELSE LET first == find_executables(ds, fs, Head(paths))
             rest == FlatMapExecutables(ds, fs, Tail(paths))
         IN  [exes |-> first.exes \o rest.exes, reads |-> first.reads \o rest.reads]

\* find_python_environments_in_paths_with_locators (not on macOS), as the
\* reporter calls made, the directories probed and the directories read.
find_python_environments_in_paths_with_locators(ds, fs, registry, paths, is_workspace_folder) ==
    IF is_workspace_folder
    THEN [reports |-> identify_python_executables_using_locators(
                          registry, FlatMapOption(ds, fs, paths)),
          executables |-> FlatMapOption(ds, fs, paths),
          probed |-> Range(paths),
          reads |-> {}]
    ELSE LET found == FlatMapExecutables(ds, fs, paths)
         IN  [reports |-> identify_python_executables_using_locators(registry, found.exes),
              executables |-> found.exes,
              probed |-> Range(paths),
              reads |-> Range(found.reads)]

ChunksOneBatch(paths, is_workspace_folder) ==
    IF paths = <<>> THEN <<>> ELSE <<paths>>

\* paths.chunks(chunks) of find_python_environments: one chunk of all the
\* paths for workspace folders, one chunk per path otherwise.
Chunks(paths, is_workspace_folder) ==
    IF paths = <<>> THEN <<>>
    ELSE IF is_workspace_folder THEN <<paths>>
    ELSE [i \in 1..Len(paths) |-> <<paths[i]>>]

\* The subdirectories of one root the workspace scan recurses into.
Subdirectories(ds, fs, path) ==
    SelectSeq(SelectSeq(ReadDir(ds, fs, path), LAMBDA d : d \in ds),
              should_search_for_environments_in_path)

(***************************************************************************)
(* pet-global-virtualenvs: lib.rs                                          *)
(***************************************************************************)
UserHome == <<"home">>

get_global_virtualenv_dirs(ds, fs, work_on_home, user_home) ==
    LET from_env == IF IsSome(work_on_home) /\ work_on_home[1] \in ds \cup fs
                    THEN work_on_home ELSE <<>>
        under_home == <<Join(user_home, "envs"), Join(user_home, ".direnv"),
                        Join(user_home, ".venvs"), Join(user_home, ".virtualenvs"),
                        Join(Join(Join(user_home, ".local"), "share"), "virtualenvs")>>
        relative == <<(<<"Envs">>), (<<"envs">>)>>
    IN  from_env \o SelectSeq(under_home \o relative, LAMBDA d : d \in ds \cup fs)

\* pet_conda::utils::is_conda_env: the directory holds conda-meta.
is_conda_env(ds, fs, p) == Join(p, "conda-meta") \in ds \cup fs

\* The entries of every well-known directory that are no conda environment,
\* sorted and without duplicates.
list_global_virtual_envs_paths(ds, fs, work_on_home, user_home) ==
    LET roots == get_global_virtualenv_dirs(ds, fs, work_on_home, user_home)
    IN  SortPaths({p \in UNION {Range(ReadDir(ds, fs, roots[i])) : i \in 1..Len(roots)} :
                      ~is_conda_env(ds, fs, p)})

(***************************************************************************)
(* The parts of the state a specification does not use                     *)
(***************************************************************************)
NoFold == /\ fold_input = <<>> /\ fold_pos = 0 /\ fold_acc = <<>>
NoExtract == /\ ex_path = None /\ ex_result = None

\* find_and_report_envs is not running.
NoEngine ==
    /\ locators = <<>> /\ search_paths = <<>> /\ environment_paths = <<>>
    /\ path_entries = <<>> /\ workon_home = None
    /\ main_pc = "start" /\ validation_time = "zero" /\ search_time = "zero"
    /\ cached = <<>> /\ vtask = <<>>
    /\ sweep_pc = "idle" /\ find_pc = <<>> /\ conda_pc = "idle"
    /\ glob_pc = "idle" /\ groots = <<>> /\ gtask = <<>>
    /\ ws_pc = "idle" /\ ws_stack = <<>>
    /\ reports = [validate |-> <<>>, find |-> <<>>, global |-> <<>>, workspace |-> <<>>]
    /\ scanned = [global |-> <<>>, workspace |-> <<>>]
    /\ ws_probed = {} /\ ws_enumerated = {}
    /\ glob_probed = {} /\ glob_enumerated = {}

\* No Poetry locator has been made.
NoPoetry ==
    /\ poetry_is_file = FALSE /\ project_dirs = <<>> /\ searched = FALSE
    /\ poetry_envs = <<>> /\ poetry_manager = None /\ discoveries = 0
    /\ thr = <<>> /\ lock_holder = <<>>

\* No file name is being tested; no cache call is in progress.
NoName == exe_name = <<>> /\ exe_accepted = None

NoRace == readers = <<>> /\ storer = <<>>

NoCache ==
    /\ has_cache = FALSE /\ cache_is_dirty = TRUE /\ environments = <<>>
    /\ disk = <<>> /\ last_store = None /\ latest = <<>> /\ retval = None

NoFiles == dirs = {} /\ files = {} /\ live = <<>>

(***************************************************************************)
(* CacheSpec: one Cache used by one caller, call after call                *)
(***************************************************************************)
MaxTime == 2
MaxMirror == 2

FileTimes(m, c) == Some([mtime |-> Some(m), ctime |-> Some(c)])

\* The executables of the model, all readable, modified and created at 1.
LiveInit == [p \in {VenvExe, VenvExe3, ProjExe} |-> FileTimes(1, 1)]

\* The environments a caller hands to store().
StoreInputs == {VenvEnv, PoetryEnv, CondaEnv, KeylessEnv}

\* The state after Cache::new(cache_dir) on an empty directory.
CacheInit ==
    /\ dirs = {} /\ files = DOMAIN LiveInit
    /\ live = LiveInit
    /\ has_cache = TRUE
    /\ cache_is_dirty = TRUE
    /\ environments = <<>>
    /\ disk = <<>>
    /\ last_store = None /\ latest = <<>>
    /\ retval = None
    /\ NoFold /\ NoExtract /\ NoEngine /\ NoPoetry /\ NoName /\ NoRace

\* cache.store(env), whatever comes of writing the file; with `recorded`, what
\* was written for each identity is kept in latest.
StoreCall(recorded) ==
    \E env \in StoreInputs, outcome \in WriteOutcomes :
        /\ Len(environments) < MaxMirror
        /\ LET r == Store(environments, disk, cache_is_dirty, live, env, outcome)
           IN  /\ environments' = r.environments
               /\ disk' = r.disk
               /\ cache_is_dirty' = r.cache_is_dirty
        /\ LET key == get_environment_key(env)
               written == IsSome(key) /\ outcome = "written"
               links == IF IsSome(env.symlinks)
                        THEN Range(env.symlinks[1]) \cap DOMAIN live ELSE {}
               then == [q \in links |-> live[q]]
           IN  /\ last_store' = Some([env |-> env, dirty_before |-> cache_is_dirty,
                                      stored |-> written, live |-> then])
               /\ latest' = IF written /\ recorded
                             THEN [k \in DOMAIN latest \cup {key[1]} |->
                                     IF k # key[1] THEN latest[k]
                                     ELSE [env |-> env, live |-> then,
                                           again |-> key[1] \in DOMAIN latest]]
                             ELSE latest
        /\ retval' = None
        /\ UNCHANGED <<has_cache, fs_vars, fold_vars, ex_vars, engine_vars, poetry_vars, name_vars, race_vars>>

CacheStore == StoreCall(FALSE)

RecordedStore == StoreCall(TRUE)

\* cache.get_all_environments()
CacheGetAll ==
    /\ LET r == GetAllEnvironments(environments, disk, cache_is_dirty)
       IN  /\ environments' = r.environments
           /\ cache_is_dirty' = r.cache_is_dirty
           /\ retval' = Some(r.returned)
    /\ UNCHANGED <<has_cache, disk, last_store, latest, fs_vars, fold_vars, ex_vars, engine_vars, poetry_vars, name_vars, race_vars>>

\* The process ends and a later one opens the same directory: Cache::new.
CacheNew ==
    /\ cache_is_dirty' = TRUE
    /\ environments' = <<>>
    /\ last_store' = None
    /\ retval' = None
    /\ UNCHANGED <<latest, has_cache, disk, fs_vars, fold_vars, ex_vars, engine_vars, poetry_vars, name_vars, race_vars>>

\* Outside the program: an executable is rewritten, its mtime advances.
Touch ==
    \E p \in {VenvExe, ProjExe} :
        /\ IsSome(live[p]) /\ live[p][1].mtime[1] < MaxTime
        /\ live' = [live EXCEPT ![p] = FileTimes(live[p][1].mtime[1] + 1,
                                                 live[p][1].ctime[1])]
        /\ UNCHANGED <<dirs, files, cache_vars, fold_vars, ex_vars, engine_vars, poetry_vars, name_vars, race_vars>>

\* Outside the program: an executable is deleted, metadata() fails from now on.
Unlink ==
    \E p \in {VenvExe3, ProjExe} :
        /\ IsSome(live[p])
        /\ live' = [live EXCEPT ![p] = None]
        /\ UNCHANGED <<dirs, files, cache_vars, fold_vars, ex_vars, engine_vars, poetry_vars, name_vars, race_vars>>

CacheNext == CacheStore \/ CacheGetAll \/ CacheNew \/ Touch \/ Unlink

(***************************************************************************)
(* ReadSpec: the cache opened on a directory that already holds files      *)
(***************************************************************************)
\* Files found in the cache directory: a record under an upper-case
\* extension, a record in a text file, a file that does not decode, and the
\* record of an earlier run.
FoundFiles ==
    ([stem |-> 1, ext |-> "JSON"] :> Serialized(CondaEnv))
        @@ ([stem |-> 2, ext |-> "txt"] :> Serialized(KeylessEnv))
        @@ ([stem |-> 3, ext |-> "json"] :> CorruptFile)
        @@ ([stem |-> 4, ext |-> "json"] :> Serialized(ProjVenvEnv))

\* Cache::new(cache_dir) on a directory holding some of them.
ReadInit ==
    /\ dirs = {} /\ files = DOMAIN LiveInit
    /\ live = LiveInit
    /\ has_cache = TRUE
    /\ cache_is_dirty = TRUE
    /\ environments = <<>>
    /\ \E found \in SUBSET DOMAIN FoundFiles : disk = [n \in found |-> FoundFiles[n]]
    /\ last_store = None /\ latest = <<>>
    /\ retval = None
    /\ NoFold /\ NoExtract /\ NoEngine /\ NoPoetry /\ NoName /\ NoRace

ReadNext == CacheStore \/ CacheGetAll

(***************************************************************************)
(* OverwriteSpec: stores and reads, what each identity last had written    *)
(* being recorded                                                          *)
(***************************************************************************)
OverwriteNext == RecordedStore \/ CacheGetAll \/ Touch

(***************************************************************************)
(* BatchSpec: the fold over the subdirectories of one root, step by step   *)
(***************************************************************************)
MaxSubdirs == 45

\* The reader yields n subdirectories; the fold has consumed none.
BatchInit ==
    /\ \E n \in 0..MaxSubdirs : fold_input = [i \in 1..n |-> i]
    /\ fold_pos = 0
    /\ fold_acc = <<>>
    /\ NoCache /\ NoFiles /\ NoExtract /\ NoEngine /\ NoPoetry /\ NoName /\ NoRace

\* The fold consumes the next subdirectory.
FoldNext ==
    /\ fold_pos < Len(fold_input)
    /\ fold_acc' = FoldStep(fold_acc, fold_input[fold_pos + 1])
    /\ fold_pos' = fold_pos + 1
    /\ UNCHANGED <<fold_input, fs_vars, cache_vars, ex_vars, engine_vars, poetry_vars, name_vars, race_vars>>

(***************************************************************************)
(* ExtractSpec: find_executables on one root of a small file system        *)
(***************************************************************************)
ExtractRoots ==
    {<<"home", "tools">>, <<"usr", "bin">>, <<"home", ".pyenv", "shims">>,
     <<"opt", "venv">>}

ExeNames == {"python", "python3", "python3.10", "pythonw"}

\* A root directory holding any of the names, with or without a bin
\* subdirectory holding any of the names.
ExtractInit ==
    /\ \E root \in ExtractRoots, has_bin \in BOOLEAN,
          in_root \in SUBSET ExeNames, in_bin \in SUBSET ExeNames :
        /\ has_bin \/ in_bin = {}
        /\ dirs = {root} \cup (IF has_bin THEN {Join(root, "bin")} ELSE {})
        /\ files = {Join(root, n) : n \in in_root}
                     \cup {Join(Join(root, "bin"), n) : n \in in_bin}
        /\ ex_path = Some(root)
    /\ live = <<>>
    /\ ex_result = None
    /\ NoCache /\ NoFold /\ NoEngine /\ NoPoetry /\ NoName /\ NoRace

\* find_executables(env_path)
Extract ==
    /\ IsSome(ex_path) /\ ex_result = None
    /\ ex_result' = Some(find_executables(dirs, files, ex_path[1]))
    /\ UNCHANGED <<ex_path, fs_vars, cache_vars, fold_vars, engine_vars, poetry_vars, name_vars, race_vars>>

(***************************************************************************)
(* Spec: one call of find_and_report_envs, and a cache read after it       *)
(***************************************************************************)
Ws == <<"ws">>
OptVenv == <<"opt", "venv">>
UsrBin == <<"usr", "bin">>
ProjBin == <<"ws", "proj", "bin">>
HomeTools == <<"home", "tools">>
HomeEnvs == <<"home", "envs">>
Big == <<"big">>

\* One more subdirectory than a batch takes.
BigSubdirs ==
    {Join(Big, n) : n \in {"d01", "d02", "d03", "d04", "d05", "d06", "d07", "d08",
                           "d09", "d10", "d11", "d12", "d13", "d14", "d15", "d16",
                           "d17", "d18", "d19", "d20", "d21"}}

\* The machine: an environment in /opt/venv; a workspace /ws holding a
\* Poetry project, a node_modules and a .git directory, and an environment
\* two levels down; /usr/bin; a directory of tools without python; one
\* global virtualenv; a workspace /big of 21 empty directories.
EngineDirs ==
    BigSubdirs \cup
    {Big, <<"opt">>, OptVenv, <<"opt", "venv", "bin">>,
     Ws, <<"ws", "proj">>, ProjBin,
     <<"ws", "node_modules">>, <<"ws", "node_modules", "bin">>,
     <<"ws", ".git">>,
     <<"ws", "app">>, <<"ws", "app", "venv">>, <<"ws", "app", "venv", "bin">>,
     <<"usr">>, UsrBin,
     <<"home">>, HomeTools, HomeEnvs, <<"home", "envs", "dj">>,
     <<"home", "envs", "dj", "bin">>}

EngineFiles ==
    {VenvExe, VenvExe3, ProjExe,
     <<"ws", "node_modules", "bin", "python">>,
     <<"ws", "app", "venv", "bin", "python">>,
     <<"ws", "readme">>,
     UsrPython3, <<"usr", "bin", "python3.10">>,
     <<"home", "tools", "pythonw">>,
     <<"home", "envs", "dj", "bin", "python">>}

\* Every file readable, modified and created at 1.
EngineLive == [p \in EngineFiles |-> FileTimes(1, 1)]

Scenario(registry, roots, env_paths, path, workon) ==
    [locators |-> registry, search_paths |-> roots, environment_paths |-> env_paths,
     path_entries |-> path, workon_home |-> workon]

\* What find_and_report_envs is called with, and the environment variables.
Scenarios ==
    {Scenario(<<"venv">>, <<OptVenv>>, <<>>, <<>>, None),
     Scenario(<<"poetry", "venv", "system">>, <<Ws>>, <<Join(Ws, "proj")>>, <<UsrBin>>, None),
     Scenario(<<"venv", "poetry">>, <<Ws>>, <<>>, <<>>, None),
     Scenario(<<"venv">>, <<Big>>, <<>>, <<>>, None),
     Scenario(<<"venv", "homevenv">>, <<>>, <<>>, <<>>, None),
     Scenario(<<"venv", "system">>, <<>>, <<HomeTools>>, <<UsrBin>>, Some(HomeEnvs))}

CacheState(mirror, d, dirty) ==
    [environments |-> mirror, disk |-> d, cache_is_dirty |-> dirty]

RECURSIVE store_reported(_, _, _)
\* pet_reporter::cache::CacheReporter: every environment reported is stored
\* in the cache before it is passed on.
store_reported(c, tbl, reps) ==
    IF reps = <<>> THEN c
    ELSE IF Head(reps).kind = "environment"
    THEN store_reported(
             Store(c.environments, c.disk, c.cache_is_dirty, tbl, Head(reps).env[1], "written"),
             tbl, Tail(reps))
    ELSE store_reported(c, tbl, Tail(reps))

\* The cache directory an earlier run left, when every file's times were 1.
WarmDisk ==
    store_reported(CacheState(<<>>, <<>>, TRUE), EngineLive,
                   <<EnvironmentReport(VenvEnv), EnvironmentReport(PoetryEnv)>>).disk

\* The reporter is given reps: with a cache, the CacheReporter stores them.
Emit(reps) ==
    IF has_cache
    THEN LET c == store_reported(CacheState(environments, disk, cache_is_dirty), live, reps)
         IN  /\ environments' = c.environments
             /\ disk' = c.disk
             /\ cache_is_dirty' = c.cache_is_dirty
    ELSE UNCHANGED <<environments, disk, cache_is_dirty>>

Init ==
    /\ dirs = EngineDirs
    /\ \E sc \in Scenarios :
        /\ locators = sc.locators
        /\ search_paths = sc.search_paths
        /\ environment_paths = sc.environment_paths
        /\ path_entries = sc.path_entries
        /\ workon_home = sc.workon_home
    \* no cache, an empty cache directory, or the directory of an earlier run,
    \* after which an executable may have been rewritten or deleted
    /\ \/ has_cache = FALSE /\ disk = <<>> /\ live = EngineLive
       \/ has_cache = TRUE /\ disk = <<>> /\ live = EngineLive
       \/ /\ has_cache = TRUE /\ disk = WarmDisk
          /\ live \in {EngineLive,
                       [EngineLive EXCEPT ![VenvExe3] = FileTimes(2, 1)],
                       [EngineLive EXCEPT ![ProjExe] = FileTimes(2, 1)],
                       [EngineLive EXCEPT ![VenvExe3] = None]}
    /\ files = {f \in EngineFiles : IsSome(live[f])}
    /\ cache_is_dirty = TRUE /\ environments = <<>>
    /\ last_store = None /\ latest = <<>> /\ retval = None
    /\ main_pc = "start" /\ validation_time = "zero" /\ search_time = "zero"
    /\ cached = <<>> /\ vtask = <<>>
    /\ sweep_pc = "idle" /\ find_pc = <<>> /\ conda_pc = "idle"
    /\ glob_pc = "idle" /\ groots = <<>> /\ gtask = <<>>
    /\ ws_pc = "idle" /\ ws_stack = <<>>
    /\ reports = [validate |-> <<>>, find |-> <<>>, global |-> <<>>, workspace |-> <<>>]
    /\ scanned = [global |-> <<>>, workspace |-> <<>>]
    /\ ws_probed = {} /\ ws_enumerated = {}
    /\ glob_probed = {} /\ glob_enumerated = {}
    /\ NoFold /\ NoExtract /\ NoPoetry /\ NoName /\ NoRace

Spawned(n) == [i \in 1..n |-> "spawned"]

NoReports(n) == [i \in 1..n |-> <<>>]

JoinedWithoutWaiting(tasks) == Len(tasks) >= 0

\* thread::scope returns: no task it spawned is still to run.
Joined(tasks) == \A i \in 1..Len(tasks) : tasks[i] # "spawned"

\* ---- Phase A -----------------------------------------------------------
\* With a cache: report_validated_environments reads the cache and spawns
\* one task per environment that has an executable.
ValidateCache ==
    /\ main_pc = "start" /\ has_cache
    /\ LET r == GetAllEnvironments(environments, disk, cache_is_dirty)
       IN  /\ environments' = r.environments
           /\ cache_is_dirty' = r.cache_is_dirty
           /\ cached' = r.returned
           /\ vtask' = [i \in 1..Len(r.returned) |->
                          IF IsSome(r.returned[i].executable) THEN "spawned" ELSE "none"]
           /\ reports' = [reports EXCEPT !.validate = NoReports(Len(r.returned))]
    /\ main_pc' = "validating"
    /\ UNCHANGED <<scanned, has_cache, disk, last_store, latest, retval, validation_time, search_time,
                   ws_probed, ws_enumerated, glob_probed, glob_enumerated,
                   fs_vars, config_vars, sweep_vars, glob_vars, ws_vars,
                   fold_vars, ex_vars, poetry_vars, name_vars, race_vars>>

\* Without a cache there is no Phase A.
SkipValidation ==
    /\ main_pc = "start" /\ ~has_cache
    /\ main_pc' = "refresh"
    /\ UNCHANGED <<validation_time, search_time, cache_vars, fs_vars, config_vars,
                   phase_a_vars, sweep_vars, glob_vars, ws_vars, log_vars,
                   fold_vars, ex_vars, poetry_vars, name_vars, race_vars>>

\* The task validating the i-th cached environment.
Validate ==
    \E i \in 1..Len(vtask) :
        /\ vtask[i] = "spawned"
        /\ LET reps == validate_environment(locators, live, cached[i])
           IN  /\ reports' = [reports EXCEPT !.validate[i] = reps]
               /\ Emit(reps)
        /\ vtask' = [vtask EXCEPT ![i] = "done"]
        /\ UNCHANGED <<scanned, has_cache, last_store, latest, retval, cached, main_vars,
                       ws_probed, ws_enumerated, glob_probed, glob_enumerated,
                       fs_vars, config_vars, sweep_vars, glob_vars, ws_vars,
                       fold_vars, ex_vars, poetry_vars, name_vars, race_vars>>

\* The scope of report_validated_environments ends; the time is taken.
ValidateJoin ==
    /\ main_pc = "validating" /\ Joined(vtask)
    /\ validation_time' = "measured"
    /\ main_pc' = "refresh"
    /\ UNCHANGED <<search_time, cache_vars, fs_vars, config_vars, phase_a_vars,
                   sweep_vars, glob_vars, ws_vars, log_vars, fold_vars, ex_vars, poetry_vars, name_vars, race_vars>>

\* ---- Phase B -----------------------------------------------------------
\* thread::scope of find_and_report_envs spawns its three tasks.
StartSearch ==
    /\ main_pc = "refresh"
    /\ sweep_pc' = "spawned" /\ glob_pc' = "spawned" /\ ws_pc' = "spawned"
    /\ main_pc' = "searching"
    /\ UNCHANGED <<validation_time, search_time, find_pc, conda_pc, groots, gtask,
                   ws_stack, cache_vars, fs_vars, config_vars, phase_a_vars,
                   log_vars, fold_vars, ex_vars, poetry_vars, name_vars, race_vars>>

\* Task 1 spawns one task per locator.
SweepStart ==
    /\ sweep_pc = "spawned"
    /\ find_pc' = Spawned(Len(locators))
    /\ reports' = [reports EXCEPT !.find = NoReports(Len(locators))]
    /\ sweep_pc' = "finding"
    /\ UNCHANGED <<scanned, conda_pc, ws_probed, ws_enumerated, glob_probed, glob_enumerated,
                   cache_vars, fs_vars, config_vars, main_vars, phase_a_vars,
                   glob_vars, ws_vars, fold_vars, ex_vars, poetry_vars, name_vars, race_vars>>

\* locator.find(reporter) of the i-th locator.
Find ==
    \E i \in 1..Len(find_pc) :
        /\ find_pc[i] = "spawned"
        /\ reports' = [reports EXCEPT !.find[i] = find(locators[i])]
        /\ Emit(find(locators[i]))
        /\ find_pc' = [find_pc EXCEPT ![i] = "done"]
        /\ UNCHANGED <<scanned, has_cache, last_store, latest, retval, sweep_pc, conda_pc,
                       ws_probed, ws_enumerated, glob_probed, glob_enumerated,
                       fs_vars, config_vars, main_vars, phase_a_vars, glob_vars,
                       ws_vars, fold_vars, ex_vars, poetry_vars, name_vars, race_vars>>

\* Every find has returned: task 1 detaches the Conda probe and ends.
SweepProbe ==
    /\ sweep_pc = "finding" /\ Joined(find_pc)
    /\ conda_pc' = "running"
    /\ sweep_pc' = "done"
    /\ UNCHANGED <<find_pc, cache_vars, fs_vars, config_vars, main_vars,
                   phase_a_vars, glob_vars, ws_vars, log_vars, fold_vars, ex_vars, poetry_vars, name_vars, race_vars>>

\* conda_locator.find_with_conda_executable returns in the detached thread.
CondaProbe ==
    /\ conda_pc = "running"
    /\ conda_pc' = "done"
    /\ UNCHANGED <<sweep_pc, find_pc, cache_vars, fs_vars, config_vars, main_vars,
                   phase_a_vars, glob_vars, ws_vars, log_vars, fold_vars, ex_vars, poetry_vars, name_vars, race_vars>>

\* Task 2 assembles the global roots and find_python_environments spawns
\* one task per chunk of them.
GlobalStart ==
    /\ glob_pc = "spawned"
    /\ LET paths == path_entries
                      \o list_global_virtual_envs_paths(dirs, files, workon_home, UserHome)
                      \o environment_paths
           chunks == Chunks(paths, FALSE)
       IN  /\ groots' = paths
           /\ gtask' = Spawned(Len(chunks))
           /\ reports' = [reports EXCEPT !.global = NoReports(Len(chunks))]
           /\ scanned' = [scanned EXCEPT !.global = NoReports(Len(chunks))]
           /\ glob_pc' = IF chunks = <<>> THEN "done" ELSE "scanning"
    /\ UNCHANGED <<ws_probed, ws_enumerated, glob_probed, glob_enumerated,
                   cache_vars, fs_vars, config_vars, main_vars, phase_a_vars,
                   sweep_vars, ws_vars, fold_vars, ex_vars, poetry_vars, name_vars, race_vars>>

\* The task of the i-th chunk of the global roots.
GlobalScan ==
    \E i \in 1..Len(gtask) :
        /\ gtask[i] = "spawned"
        /\ LET r == find_python_environments_in_paths_with_locators(
                        dirs, files, locators, Chunks(groots, FALSE)[i], FALSE)
           IN  /\ reports' = [reports EXCEPT !.global[i] = r.reports]
               /\ scanned' = [scanned EXCEPT !.global[i] = r.executables]
               /\ Emit(r.reports)
               /\ glob_probed' = glob_probed \cup r.probed
               /\ glob_enumerated' = glob_enumerated \cup r.reads
        /\ gtask' = [gtask EXCEPT ![i] = "done"]
        /\ UNCHANGED <<has_cache, last_store, latest, retval, glob_pc, groots,
                       ws_probed, ws_enumerated, fs_vars, config_vars, main_vars,
                       phase_a_vars, sweep_vars, ws_vars, fold_vars, ex_vars, poetry_vars, name_vars, race_vars>>

\* The scope of find_python_environments ends; task 2 ends.
GlobalJoin ==
    /\ glob_pc = "scanning" /\ Joined(gtask)
    /\ glob_pc' = "done"
    /\ UNCHANGED <<groots, gtask, cache_vars, fs_vars, config_vars, main_vars,
                   phase_a_vars, sweep_vars, ws_vars, log_vars, fold_vars, ex_vars, poetry_vars, name_vars, race_vars>>

\* A call of find_python_environments_in_workspace_folders_recursive.
Frame(paths, depth) ==
    [paths |-> paths, depth |-> depth, stage |-> "spawned",
     roots |-> <<>>, batches |-> <<>>, launched |-> 0]

Top == ws_stack[Len(ws_stack)]

SetTop(frame) == [ws_stack EXCEPT ![Len(ws_stack)] = frame]

\* The innermost call returns; with the outermost, task 3 ends.
Return ==
    /\ ws_stack' = SubSeq(ws_stack, 1, Len(ws_stack) - 1)
    /\ ws_pc' = IF Len(ws_stack) = 1 THEN "done" ELSE ws_pc

\* Task 3 returns at once without search paths, else makes the first call,
\* whose scope spawns its task.
WorkspaceStart ==
    /\ ws_pc = "spawned"
    /\ IF search_paths = <<>>
       THEN ws_pc' = "done" /\ ws_stack' = ws_stack
       ELSE ws_pc' = "running" /\ ws_stack' = <<Frame(search_paths, 0)>>
    /\ UNCHANGED <<cache_vars, fs_vars, config_vars, main_vars, phase_a_vars,
                   sweep_vars, glob_vars, log_vars, fold_vars, ex_vars, poetry_vars, name_vars, race_vars>>

\* find_python_environments(paths1, .., true) spawns the task of its chunk.
WorkspaceProbeSpawn ==
    /\ ws_pc = "running" /\ Top.stage = "spawned"
    /\ ws_stack' = SetTop([Top EXCEPT !.stage =
                              IF Chunks(Top.paths, TRUE) = <<>> THEN "probed" ELSE "probing"])
    /\ UNCHANGED <<ws_pc, cache_vars, fs_vars, config_vars, main_vars, phase_a_vars,
                   sweep_vars, glob_vars, log_vars, fold_vars, ex_vars, poetry_vars, name_vars, race_vars>>

\* That task: find_executable on every path of the call, then the locators.
WorkspaceProbe ==
    /\ ws_pc = "running" /\ Top.stage = "probing"
    /\ LET r == find_python_environments_in_paths_with_locators(
                    dirs, files, locators, Top.paths, TRUE)
       IN  /\ reports' = [reports EXCEPT !.workspace = @ \o r.reports]
           /\ scanned' = [scanned EXCEPT !.workspace = @ \o r.executables]
           /\ Emit(r.reports)
           /\ ws_probed' = ws_probed \cup r.probed
    /\ ws_stack' = SetTop([Top EXCEPT !.stage = "probed"])
    /\ UNCHANGED <<has_cache, last_store, latest, retval, ws_pc, ws_enumerated, glob_probed,
                   glob_enumerated, fs_vars, config_vars, main_vars, phase_a_vars,
                   sweep_vars, glob_vars, fold_vars, ex_vars, poetry_vars, name_vars, race_vars>>

DepthReachedOffByOne(depth) == depth > MaxDepth

\* if depth >= max_depth { return; }
DepthReached(depth) == depth >= MaxDepth

\* At the depth limit the call returns; else it keeps the paths that have no
\* bin directory.
WorkspaceDescend ==
    /\ ws_pc = "running" /\ Top.stage = "probed"
    /\ IF DepthReached(Top.depth)
       THEN Return
       ELSE /\ ws_stack' = SetTop([Top EXCEPT
                   !.stage = "enumerating",
                   !.roots = SelectSeq(Top.paths, LAMBDA q : ~Exists(Join(q, "bin")))])
            /\ ws_pc' = ws_pc
    /\ UNCHANGED <<cache_vars, fs_vars, config_vars, main_vars, phase_a_vars,
                   sweep_vars, glob_vars, log_vars, fold_vars, ex_vars, poetry_vars, name_vars, race_vars>>

\* fs::read_dir of the next path, its subdirectories folded into batches.
WorkspaceReadDir ==
    /\ ws_pc = "running" /\ Top.stage = "enumerating"
    /\ Top.batches = <<>> /\ Top.roots # <<>>
    /\ ws_enumerated' = ws_enumerated \cup {Head(Top.roots)}
    /\ ws_stack' = SetTop([Top EXCEPT
           !.roots = Tail(Top.roots), !.launched = 0,
           !.batches = Batches(Subdirectories(dirs, files, Head(Top.roots)))])
    /\ UNCHANGED <<ws_pc, reports, scanned, ws_probed, glob_probed, glob_enumerated,
                   cache_vars, fs_vars, config_vars, main_vars, phase_a_vars,
                   sweep_vars, glob_vars, fold_vars, ex_vars, poetry_vars, name_vars, race_vars>>

\* The recursive call for the next batch; the caller waits for it.
WorkspaceRecurse ==
    /\ ws_pc = "running" /\ Top.stage = "enumerating"
    /\ Top.batches # <<>>
    /\ ws_stack' = Append(SetTop([Top EXCEPT !.batches = Tail(Top.batches),
                                             !.launched = @ + 1]),
                          Frame(Head(Top.batches), Top.depth + 1))
    /\ UNCHANGED <<ws_pc, cache_vars, fs_vars, config_vars, main_vars, phase_a_vars,
                   sweep_vars, glob_vars, log_vars, fold_vars, ex_vars, poetry_vars, name_vars, race_vars>>

\* Every path of the call is done: the call returns.
WorkspaceReturn ==
    /\ ws_pc = "running" /\ Top.stage = "enumerating"
    /\ Top.batches = <<>> /\ Top.roots = <<>>
    /\ Return
    /\ UNCHANGED <<cache_vars, fs_vars, config_vars, main_vars, phase_a_vars,
                   sweep_vars, glob_vars, log_vars, fold_vars, ex_vars, poetry_vars, name_vars, race_vars>>

SearchJoinedWithoutWorkspace == sweep_pc = "done" /\ glob_pc = "done"

\* The scope of find_and_report_envs: its three tasks have ended.
SearchJoined == sweep_pc = "done" /\ glob_pc = "done" /\ ws_pc = "done"

\* The scope ends, the time is taken, find_and_report_envs returns.
FinishSearch ==
    /\ main_pc = "searching" /\ SearchJoined
    /\ search_time' = "measured"
    /\ main_pc' = "returned"
    /\ UNCHANGED <<validation_time, cache_vars, fs_vars, config_vars, phase_a_vars,
                   sweep_vars, glob_vars, ws_vars, log_vars, fold_vars, ex_vars, poetry_vars, name_vars, race_vars>>

\* After the call: the caller reads the cache.
ReadCache ==
    /\ main_pc = "returned" /\ has_cache /\ retval = None
    /\ LET r == GetAllEnvironments(environments, disk, cache_is_dirty)
       IN  /\ environments' = r.environments
           /\ cache_is_dirty' = r.cache_is_dirty
           /\ retval' = Some(r.returned)
    /\ UNCHANGED <<has_cache, disk, last_store, latest, fs_vars, engine_vars, fold_vars, ex_vars, poetry_vars, name_vars, race_vars>>

Next ==
    \/ ValidateCache \/ SkipValidation \/ Validate \/ ValidateJoin
    \/ StartSearch \/ SweepStart \/ Find \/ SweepProbe \/ CondaProbe
    \/ GlobalStart \/ GlobalScan \/ GlobalJoin
    \/ WorkspaceStart \/ WorkspaceProbeSpawn \/ WorkspaceProbe \/ WorkspaceDescend
    \/ WorkspaceReadDir \/ WorkspaceRecurse \/ WorkspaceReturn
    \/ FinishSearch \/ ReadCache

(***************************************************************************)
(* PoetrySpec: one Poetry locator, its find called by one task and its     *)
(* from by another, as task 1 and the scans of find_and_report_envs do     *)
(***************************************************************************)
MaxCalls == 2

Callers == {"find", "from"}

\* What `poetry env list --full-path` run in the project directories comes
\* to, after create_poetry_env: the environment of /ws/proj when /ws is one
\* of them.
get_environments_for_folders(project_directories) ==
    IF Ws \in Range(project_directories) THEN <<PoetryEnv>> ELSE <<>>

\* LocatorResult
LocatorResult(envs) == [managers |-> <<PoetryManager>>, environments |-> envs]

\* Poetry::from(environment) and the tasks that will call the locator; the
\* poetry executable is installed or not.
PoetryInit ==
    /\ poetry_is_file \in BOOLEAN
    /\ project_dirs = <<>> /\ searched = FALSE
    /\ poetry_envs = <<>> /\ poetry_manager = None /\ discoveries = 0
    /\ thr = [t \in Callers |-> [pc |-> "idle", made |-> 0, listed |-> <<>>, answer |-> None]]
    /\ lock_holder = <<>>
    /\ NoCache /\ NoFiles /\ NoFold /\ NoExtract /\ NoEngine /\ NoName /\ NoRace

Returns(t, answer) ==
    thr' = [thr EXCEPT ![t] = [pc |-> "idle", made |-> thr[t].made + 1,
                               listed |-> <<>>, answer |-> answer]]

\* configure(config), between discover calls: the project directories are
\* replaced when search paths are given.
Configure ==
    /\ \A t \in Callers : thr[t].pc = "idle"
    /\ \E search_paths_given \in {<<>>, <<Ws>>, <<OptVenv>>} :
        project_dirs' = IF search_paths_given # <<>> THEN search_paths_given
                        ELSE project_dirs
    /\ discoveries' = 0
    /\ thr' = [t \in Callers |-> [thr[t] EXCEPT !.made = 0]]
    /\ UNCHANGED <<lock_holder, poetry_is_file, searched, poetry_envs, poetry_manager,
                   fs_vars, cache_vars, fold_vars, ex_vars, engine_vars, name_vars, race_vars>>

\* find_with_cache, under the lock on environments: answer from the memo,
\* answer nothing once searched, or go on to search.
CallBegin ==
    \E t \in Callers :
        /\ thr[t].pc = "idle" /\ thr[t].made < MaxCalls
        /\ IF poetry_envs # <<>> /\ IsSome(poetry_manager)
           THEN Returns(t, Some(LocatorResult(poetry_envs)))
           ELSE IF searched
           THEN Returns(t, None)
           ELSE thr' = [thr EXCEPT ![t].pc = "lookup"]
        /\ UNCHANGED <<lock_holder, poetry_is_file, project_dirs, searched, poetry_envs, poetry_manager,
                       discoveries, fs_vars, cache_vars, fold_vars, ex_vars, engine_vars, name_vars, race_vars>>

\* PoetryManager::find: the discovery starts.  Without a manager the search
\* flag is set and nothing is answered.
ManagerLookup ==
    \E t \in Callers :
        /\ thr[t].pc = "lookup"
        /\ discoveries' = discoveries + 1
        /\ IF poetry_is_file
           THEN /\ poetry_manager' = Some(PoetryManager)
                /\ searched' = searched
                /\ thr' = [thr EXCEPT ![t].pc = "listing"]
           ELSE /\ poetry_manager' = poetry_manager
                /\ searched' = TRUE
                /\ Returns(t, None)
        /\ UNCHANGED <<lock_holder, poetry_is_file, project_dirs, poetry_envs,
                       fs_vars, cache_vars, fold_vars, ex_vars, engine_vars, name_vars, race_vars>>

\* get_environments_for_folders: the listing command in every project
\* directory.
Listing ==
    \E t \in Callers :
        /\ thr[t].pc = "listing"
        /\ thr' = [thr EXCEPT ![t].pc = "commit",
                              ![t].listed = get_environments_for_folders(project_dirs)]
        /\ UNCHANGED <<lock_holder, poetry_is_file, project_dirs, searched, poetry_envs, poetry_manager,
                       discoveries, fs_vars, cache_vars, fold_vars, ex_vars, engine_vars, name_vars, race_vars>>

\* Under the lock on environments: the memo is replaced, the search flag
\* set, the result answered.
Commit ==
    \E t \in Callers :
        /\ thr[t].pc = "commit"
        /\ poetry_envs' = thr[t].listed
        /\ searched' = TRUE
        /\ Returns(t, Some(LocatorResult(thr[t].listed)))
        /\ UNCHANGED <<lock_holder, poetry_is_file, project_dirs, poetry_manager, discoveries,
                       fs_vars, cache_vars, fold_vars, ex_vars, engine_vars, name_vars, race_vars>>

PoetryNext == Configure \/ CallBegin \/ ManagerLookup \/ Listing \/ Commit

vars == <<fs_vars, cache_vars, fold_vars, ex_vars, engine_vars, poetry_vars, name_vars,
         race_vars>>

Spec == Init /\ [][Next]_vars

CacheSpec == CacheInit /\ [][CacheNext]_vars

ReadSpec == ReadInit /\ [][ReadNext]_vars

OverwriteSpec == CacheInit /\ [][OverwriteNext]_vars

BatchSpec == BatchInit /\ [][FoldNext]_vars

ExtractSpec == ExtractInit /\ [][Extract]_vars

PoetrySpec == PoetryInit /\ [][PoetryNext]_vars

(***************************************************************************)
(* Claims                                                                  *)
(***************************************************************************)
\* C1 (as stated): after store(e) and a get_all_environments() with no store
\* in between, the collection returned contains an entry equal to e.
C1_RoundTripEqual ==
    (IsSome(last_store) /\ IsSome(retval))
        => last_store[1].env \in Range(retval[1])

\* x is e in every field but the fingerprints.
EqualButTimes(x, e) == [x EXCEPT !.times = None] = [e EXCEPT !.times = None]

\* x carries the fingerprints store() records for e when the files' times are
\* those of tbl: the live times of e's readable symlinks, or e's own
\* fingerprints when e has no symlink whose times can be read.
Fingerprinted(x, e, tbl) ==
    LET links == IF IsSome(e.symlinks) THEN Range(e.symlinks[1]) ELSE {}
        readable == {p \in links :
                        /\ p \in DOMAIN tbl /\ IsSome(tbl[p])
                        /\ IsSome(tbl[p][1].mtime) /\ IsSome(tbl[p][1].ctime)}
    IN  IF readable = {} THEN x.times = e.times
        ELSE /\ IsSome(x.times)
             /\ DOMAIN x.times[1] = readable
             /\ \A p \in readable :
                    /\ x.times[1][p].mtime = tbl[p][1].mtime[1]
                    /\ x.times[1][p].ctime = tbl[p][1].ctime[1]

\* C1 (amended): after store(e) and a get_all_environments() with no store in
\* between: when e has an identity key and its file was written, the
\* collection returned contains e with its fingerprints replaced by the live
\* timestamps of its readable symlinks; when e has no key or the write
\* failed, it contains e if the dirty flag was clear before the store, and
\* otherwise it is what the files of the cache directory decode to.
C1_RoundTripAmended ==
    (IsSome(last_store) /\ IsSome(retval)) =>
        LET s == last_store[1]
            r == retval[1]
        IN  IF s.stored
            THEN \E i \in 1..Len(r) :
                    EqualButTimes(r[i], s.env) /\ Fingerprinted(r[i], s.env, s.live)
            ELSE IF ~s.dirty_before
            THEN s.env \in Range(r)
            ELSE \A x \in Range(r) : \E n \in DOMAIN disk : disk[n].body = Some(x)

\* C1 witness: an environment with readable symlinks was stored and read back
\* with fingerprints it did not have when it was stored.
C1_Witness ==
    /\ IsSome(last_store) /\ IsSome(retval)
    /\ last_store[1].stored
    /\ last_store[1].env = VenvEnv
    /\ \E x \in Range(retval[1]) : EqualButTimes(x, VenvEnv) /\ IsSome(x.times)

\* C6: the fold partitions the subdirectories it has consumed into
\* consecutive batches: every one is in exactly one batch, in the reader's
\* order; a batch holds 1 to 20, every batch but the last exactly 20; n
\* subdirectories give ceil(n / 20) batches, 45 of them 20, 20 and 5.
C6_Batches ==
    /\ Concat(fold_acc) = SubSeq(fold_input, 1, fold_pos)
    /\ \A b \in 1..Len(fold_acc) :
        /\ Len(fold_acc[b]) >= 1 /\ Len(fold_acc[b]) <= 20
        /\ b < Len(fold_acc) => Len(fold_acc[b]) = 20
    /\ Len(fold_acc) = (fold_pos + 19) \div 20
    /\ fold_pos = 45 =>
        <<Len(fold_acc[1]), Len(fold_acc[2]), Len(fold_acc[3])>> = <<20, 20, 5>>

\* C6 witness: the fold has consumed 45 subdirectories into three batches.
C6_Witness ==
    /\ Len(fold_input) = 45 /\ fold_pos = 45
    /\ Len(fold_acc) = 3 /\ Len(fold_acc[3]) = 5

\* The directory find_executables looks into: the root's bin when it exists.
ExtractTarget == IF Exists(Join(ex_path[1], "bin")) THEN Join(ex_path[1], "bin") ELSE ex_path[1]

\* C9: find_executables reads no directory when its target holds neither
\* python nor python3 and is not named bin; what it reads is the target
\* alone, and never a shim directory.
C9_NoNeedlessEnumeration ==
    IsSome(ex_result) =>
        LET canonical == \/ Exists(Join(ExtractTarget, "python"))
                         \/ Exists(Join(ExtractTarget, "python3"))
            named_bin == ExtractTarget[Len(ExtractTarget)] \in {"bin", "Scripts"}
            reads == Range(ex_result[1].reads)
        IN  /\ (~canonical /\ ~named_bin) => reads = {}
            /\ reads \subseteq {ExtractTarget}
            /\ \A d \in reads : ~EndsWith(d, <<".pyenv", "shims">>)
            /\ \A x \in Range(ex_result[1].exes) :
                   x \in files /\ SubSeq(x, 1, Len(x) - 1) \in reads

\* C9 witness: a root that holds only pythonw and python3.10 and has no bin
\* was extracted without a directory read.
C9_Witness ==
    /\ IsSome(ex_result) /\ ex_result[1].reads = <<>>
    /\ ex_path = Some(<<"home", "tools">>)
    /\ Join(ex_path[1], "python3.10") \in files
    /\ ~Exists(Join(ex_path[1], "bin"))

(***************************************************************************)
(* Claims about find_and_report_envs                                       *)
(***************************************************************************)
RECURSIVE Flatten(_)
Flatten(ss) == IF ss = <<>> THEN <<>> ELSE Head(ss) \o Flatten(Tail(ss))

\* The environments among the reporter calls reps.
Environments(reps) == {r.env[1] : r \in {x \in Range(reps) : x.kind = "environment"}}

\* What the global scan and the workspace scan reported and extracted.
ScanReports == Flatten(reports.global) \o reports.workspace

ScanCandidates == Range(Flatten(scanned.global)) \cup Range(scanned.workspace)

\* Every reporter call of the discover call.
AllReports == Flatten(reports.validate) \o Flatten(reports.find) \o ScanReports

\* Some recorded executable of env now has a later modification time.
Advanced(tbl, env) ==
    /\ IsSome(env.times)
    /\ \E p \in DOMAIN env.times[1] :
        /\ IsSome(get_mtime_ctime(tbl, p))
        /\ get_mtime_ctime(tbl, p)[1].mtime > env.times[1][p].mtime

\* The registered locators that recognise exe, by position.
Accepting(exe) == {k \in 1..Len(locators) : IsSome(try_from(locators[k], exe))}

\* C2: a cached environment one of whose recorded executables has a later
\* modification time is not reported by its validation task, and once the
\* call has returned, if the scans extracted its executable and a locator
\* recognises it, the scans have reported an environment with it.
C2_StaleWithheldRediscovered ==
    \A i \in 1..Len(cached) :
        (IsSome(cached[i].executable) /\ Advanced(live, cached[i])) =>
            /\ reports.validate[i] = <<>>
            /\ (/\ main_pc = "returned"
                /\ cached[i].executable[1] \in ScanCandidates
                /\ Accepting(cached[i].executable[1]) # {})
                   => \E e \in Environments(ScanReports) :
                          e.executable = cached[i].executable

\* A stale entry was withheld and rediscovered while a fresh one was
\* reported by validation.
C2_Witness ==
    /\ main_pc = "returned"
    /\ \E i, j \in 1..Len(cached) :
        /\ IsSome(cached[i].executable) /\ Advanced(live, cached[i])
        /\ vtask[i] = "done" /\ reports.validate[i] = <<>>
        /\ IsSome(locator_map_get(locators, cached[i].category))
        /\ cached[i].executable[1] \in ScanCandidates
        /\ \E e \in Environments(ScanReports) : e.executable = cached[i].executable
        /\ reports.validate[j] # <<>>

\* What the first accepting locator makes of exe.
FirstAccepting(exe) ==
    IF Accepting(exe) = {} THEN None
    ELSE try_from(locators[CHOOSE k \in Accepting(exe) :
                               \A j \in Accepting(exe) : k <= j], exe)

RECURSIVE ExpectedReports(_)
ExpectedReports(exes) ==
    IF exes = <<>> THEN <<>>
    ELSE (IF IsSome(FirstAccepting(Head(exes)))
          THEN <<EnvironmentReport(FirstAccepting(Head(exes))[1])>> ELSE <<>>)
             \o ExpectedReports(Tail(exes))

\* C3: what a scan task reports is, candidate by candidate in order, the
\* environment of the first registered locator that recognises the
\* candidate, and nothing for a candidate no locator recognises.
C3_FirstLocatorWins ==
    /\ \A i \in 1..Len(gtask) :
        gtask[i] = "done" => reports.global[i] = ExpectedReports(scanned.global[i])
    /\ reports.workspace = ExpectedReports(scanned.workspace)

\* One task met a candidate nobody recognises and still reported the next
\* one; another met a candidate two locators recognise.
C3_Witness ==
    /\ \E i \in 1..Len(gtask) :
        /\ gtask[i] = "done" /\ Len(scanned.global[i]) >= 2
        /\ Accepting(scanned.global[i][1]) = {}
        /\ Accepting(scanned.global[i][2]) # {}
        /\ Len(reports.global[i]) = 1
        /\ reports.global[i][1].env[1].executable = Some(scanned.global[i][2])
    /\ \E j \in 1..Len(gtask) :
        /\ gtask[j] = "done" /\ Len(scanned.global[j]) = 1
        /\ Cardinality(Accepting(scanned.global[j][1])) >= 2
        /\ reports.global[j] = <<EnvironmentReport(PoetryEnv)>>
        /\ locators[1] = "poetry"

\* Nothing of Phase B has happened.
PhaseBIdle ==
    /\ sweep_pc = "idle" /\ glob_pc = "idle" /\ ws_pc = "idle" /\ conda_pc = "idle"
    /\ find_pc = <<>> /\ gtask = <<>> /\ ws_stack = <<>>
    /\ reports.find = <<>> /\ reports.global = <<>> /\ reports.workspace = <<>>
    /\ ws_probed = {} /\ glob_probed = {}

\* C4: while a validation task is still to run, or validation has not been
\* joined, nothing of Phase B has happened; without a cache there is no
\* validation report and the validation time stays zero.
C4_ValidationFirst ==
    /\ (main_pc \in {"start", "validating"} \/ \E i \in 1..Len(vtask) : vtask[i] = "spawned")
           => PhaseBIdle
    /\ ~has_cache => (reports.validate = <<>> /\ vtask = <<>> /\ validation_time = "zero")

\* Validation reported an environment and a locator's find has since run.
C4_Witness ==
    /\ has_cache /\ validation_time = "measured"
    /\ \E i \in 1..Len(cached) : vtask[i] = "done" /\ reports.validate[i] # <<>>
    /\ \E k \in 1..Len(find_pc) : find_pc[k] = "done"

\* C5: when find_and_report_envs has returned, every locator's find, every
\* task of the global scan and every call of the workspace scan has ended.
C5_ReturnsAfterAllTasks ==
    main_pc = "returned" =>
        /\ sweep_pc = "done"
        /\ Len(find_pc) = Len(locators) /\ \A k \in 1..Len(find_pc) : find_pc[k] = "done"
        /\ glob_pc = "done" /\ \A i \in 1..Len(gtask) : gtask[i] = "done"
        /\ ws_pc = "done" /\ ws_stack = <<>>
        /\ search_time = "measured"

\* Returned after a nested workspace call, the Conda probe still running.
C5_Witness ==
    /\ main_pc = "returned" /\ conda_pc = "running"
    /\ \E d \in ws_probed : d \notin Range(search_paths)
    /\ Len(gtask) >= 2

\* d lies n levels below root.
Below(root, d, n) == IsPrefixOf(root, d) /\ Len(d) = Len(root) + n

\* C7: the workspace scan probes and lists only supplied search paths and
\* their immediate subdirectories.
C7_DepthLimited ==
    \A d \in ws_probed \cup ws_enumerated :
        \E root \in Range(search_paths) : \E n \in 0..1 : Below(root, d, n)

\* The scan went one level down and left a grandchild that holds a python.
C7_Witness ==
    /\ ws_pc = "done"
    /\ \E root \in Range(search_paths) : \E d \in ws_probed : \E g \in dirs :
        /\ Below(root, d, 1) /\ Below(d, g, 1) /\ g \notin ws_probed
        /\ Join(Join(g, "bin"), "python") \in files
        /\ should_search_for_environments_in_path(g)

\* The last component of d is a name the scans are to skip.
IgnoredName(d) ==
    d # <<>> /\ d[Len(d)] \in {"node_modules", ".git", ".tox", ".nox", ".hypothesis",
                               ".ipynb_checkpoints", ".eggs", ".coverage", ".cache",
                               ".pyre", ".ptype", ".pytest_cache", "__pycache__",
                               "__pypackages__", ".mypy_cache", "cython_debug",
                               "env.bak", "venv.bak", "Scripts", "bin"}

StrictlyBelowSearchPath(d) ==
    \E root \in Range(search_paths) : IsPrefixOf(root, d) /\ Len(d) > Len(root)

\* C8 (as stated): no scan probes or lists a directory with an ignored name
\* below a supplied search path.
C8_IgnoredNeverScanned ==
    \A d \in ws_probed \cup ws_enumerated \cup glob_probed \cup glob_enumerated :
        ~ (IgnoredName(d) /\ StrictlyBelowSearchPath(d))

\* C8 (amended): the workspace scan neither probes nor lists a directory
\* with an ignored name that it reached by descending from a search path.
C8_WorkspaceScanSkipsIgnored ==
    \A d \in ws_probed \cup ws_enumerated :
        ~ (IgnoredName(d) /\ StrictlyBelowSearchPath(d) /\ d \notin Range(search_paths))

\* The workspace scan listed a root holding node_modules and .git, passed
\* them over and probed a sibling.
C8_Witness ==
    /\ ws_pc = "done"
    /\ \E root \in Range(search_paths) :
        /\ root \in ws_enumerated
        /\ Join(root, "node_modules") \in dirs /\ Join(root, "node_modules") \notin ws_probed
        /\ Join(root, ".git") \in dirs /\ Join(root, ".git") \notin ws_probed
        /\ \E d \in ws_probed : Below(root, d, 1)

\* The run over a virtual environment with an empty cache and only the Venv
\* locator has returned and the cache has been read.
EndToEnd ==
    /\ locators = <<"venv">> /\ search_paths = <<OptVenv>>
    /\ has_cache /\ cached = <<>>
    /\ main_pc = "returned" /\ IsSome(retval)

\* The reports and the cache records about the executable exe.
ReportsOf(exe) ==
    SelectSeq(AllReports, LAMBDA r : r.kind = "environment" /\ r.env[1].executable = Some(exe))

RecordsOf(exe) == SelectSeq(retval[1], LAMBDA x : x.executable = Some(exe))

\* C10 (as stated): the run reports exactly one Venv environment with the
\* executable /opt/venv/bin/python, and the cache read returns that record.
C10_EndToEndSameRecord ==
    EndToEnd =>
        /\ Len(ReportsOf(VenvExe)) = 1
        /\ ReportsOf(VenvExe)[1].env[1].category = "Venv"
        /\ RecordsOf(VenvExe) = <<ReportsOf(VenvExe)[1].env[1]>>

\* C10 (amended): the cache read returns that record with the live times of
\* its executables recorded in it.
C10_EndToEndFingerprinted ==
    EndToEnd =>
        /\ Len(ReportsOf(VenvExe)) = 1
        /\ ReportsOf(VenvExe)[1].env[1].category = "Venv"
        /\ Len(RecordsOf(VenvExe)) = 1
        /\ EqualButTimes(RecordsOf(VenvExe)[1], ReportsOf(VenvExe)[1].env[1])
        /\ Fingerprinted(RecordsOf(VenvExe)[1], ReportsOf(VenvExe)[1].env[1], live)

\* The run happened: the workspace scan extracted the executable and the
\* cache holds a record of it.
C10_Witness ==
    /\ EndToEnd
    /\ VenvExe \in Range(scanned.workspace)
    /\ Len(ReportsOf(VenvExe)) = 1
    /\ Len(RecordsOf(VenvExe)) = 1
    /\ IsSome(RecordsOf(VenvExe)[1].times)

(***************************************************************************)
(* Claims about the cache, continued                                       *)
(***************************************************************************)
\* The step is a store() of an environment that has a key, in which
\* serializing or writing the file failed.
FailedStoreStep ==
    /\ IsSome(last_store') /\ last_store' # last_store
    /\ IsSome(get_environment_key(last_store'[1].env))
    /\ ~last_store'[1].stored

\* C11 (as stated): a store() in which serializing or writing fails creates,
\* changes and removes no cache file and leaves the dirty flag as it was.
C11_FailedStoreTouchesNothing ==
    [][FailedStoreStep => (disk' = disk /\ cache_is_dirty' = cache_is_dirty)]_vars

\* The step is a get_all_environments() that returns.
GetAllStep == IsSome(retval') /\ retval' # retval

\* The files of directory d that a read takes for cache files and can decode.
Decodable(d) ==
    {n \in DOMAIN d : (n.ext = "json" \/ n.ext = "JSON") /\ d[n].body # <<>>}

\* C12: get_all_environments() with the flag clear returns the mirror and
\* changes neither mirror, flag nor disk; with the flag set it returns one
\* entry per decodable cache file and nothing else, leaves the mirror equal
\* to what it returned, clears the flag and leaves the disk alone.
C12_ReadMirrorOrDisk ==
    [][GetAllStep =>
          IF ~cache_is_dirty
          THEN /\ retval'[1] = environments
               /\ environments' = environments /\ cache_is_dirty' = cache_is_dirty
               /\ disk' = disk
          ELSE /\ Len(retval'[1]) = Cardinality(Decodable(disk))
               /\ Range(retval'[1]) = {disk[n].body[1] : n \in Decodable(disk)}
               /\ environments' = retval'[1]
               /\ ~cache_is_dirty'
               /\ disk' = disk]_vars

\* A dirty read passed over a file that does not decode and a text file and
\* returned the records after them.
C12_Witness ==
    /\ IsSome(retval) /\ ~cache_is_dirty /\ environments = retval[1]
    /\ [stem |-> 3, ext |-> "json"] \in DOMAIN disk
    /\ [stem |-> 2, ext |-> "txt"] \in DOMAIN disk
    /\ [stem |-> 1, ext |-> "JSON"] \in DOMAIN disk
    /\ ProjVenvEnv \in Range(retval[1])
    /\ CondaEnv \in Range(retval[1])
    /\ KeylessEnv \notin Range(retval[1])
    /\ Len(retval[1]) = 3

\* Every file of the cache directory decodes: no failed write has left a
\* torn file behind.
AllDecode == \A n \in DOMAIN disk : disk[n].body # <<>>

\* The key of a record read back from the cache.
KeyOf(x) == IF x.executable # <<>> THEN x.executable ELSE x.prefix

\* The entries of what was returned that have the identity key k.
EntriesOf(k) == SelectSeq(retval[1], LAMBDA x : KeyOf(x) = <<k>>)

\* C13: when every store that wrote has succeeded, the cache directory holds
\* one file per identity stored, and a read that follows a successful store
\* returns one entry per identity: what the latest store of that identity
\* was given, with the times its symlinks had then.
C13_OneRecordPerIdentity ==
    AllDecode =>
        /\ Cardinality(DOMAIN disk) = Cardinality(DOMAIN latest)
        /\ (IsSome(retval) /\ IsSome(last_store) /\ last_store[1].stored) =>
              /\ Len(retval[1]) = Cardinality(DOMAIN latest)
              /\ \A k \in DOMAIN latest :
                    /\ Len(EntriesOf(k)) = 1
                    /\ EqualButTimes(EntriesOf(k)[1], latest[k].env)
                    /\ Fingerprinted(EntriesOf(k)[1], latest[k].env, latest[k].live)

\* Two identities were stored, one of them a second time after its
\* executable was rewritten, and the read returned two entries, that one
\* with the later time.
C13_Witness ==
    /\ IsSome(retval) /\ IsSome(last_store) /\ last_store[1].stored /\ AllDecode
    /\ Cardinality(DOMAIN latest) = 2
    /\ VenvExe \in DOMAIN latest /\ latest[VenvExe].again
    /\ latest[VenvExe].live[VenvExe][1].mtime = <<2>>
    /\ Len(retval[1]) = 2
    /\ \E x \in Range(retval[1]) :
          x.executable = <<VenvExe>> /\ x.times[1][VenvExe].mtime = 2

(***************************************************************************)
(* Claims about find_and_report_envs, continued                            *)
(***************************************************************************)
\* C14 (as stated): when a scan has identified a candidate as an environment
\* that has a manager, the scans have reported that manager as well as the
\* environment.
C14_ScanReportsManager ==
    \A i \in 1..Len(ScanReports) :
        (ScanReports[i].kind = "environment" /\ ScanReports[i].env[1].manager # <<>>) =>
            \E j \in 1..Len(ScanReports) :
                /\ ScanReports[j].kind = "manager"
                /\ ScanReports[j].manager = ScanReports[i].env[1].manager

\* The reports among reps of an environment with the executable exe.
ReportsIn(reps, exe) ==
    SelectSeq(reps, LAMBDA r : r.kind = "environment" /\ r.env[1].executable = <<exe>>)

\* How often the scans extracted exe.
TimesScanned(exe) ==
    Len(SelectSeq(Flatten(scanned.global) \o scanned.workspace, LAMBDA c : c = exe))

\* C16: when the call has returned, the scans have reported every candidate
\* a locator recognises as often as they extracted it, whatever cache
\* validation and the locators' find reported; and what validation and find
\* reported stays reported.
C16_NoDeduplication ==
    main_pc = "returned" =>
        \A exe \in ScanCandidates :
            Accepting(exe) # {} =>
                /\ Len(ReportsIn(ScanReports, exe)) = TimesScanned(exe)
                /\ Len(ReportsIn(AllReports, exe)) =
                       Len(ReportsIn(Flatten(reports.validate), exe))
                           + Len(ReportsIn(Flatten(reports.find), exe))
                           + TimesScanned(exe)

\* One environment was reported by cache validation, by its locator's find
\* and by both scans.
C16_Witness ==
    /\ main_pc = "returned"
    /\ \E exe \in ScanCandidates :
        /\ Len(ReportsIn(Flatten(reports.validate), exe)) = 1
        /\ Len(ReportsIn(Flatten(reports.find), exe)) = 1
        /\ Len(ReportsIn(Flatten(reports.global), exe)) = 1
        /\ Len(ReportsIn(reports.workspace, exe)) = 1
        /\ Len(ReportsIn(AllReports, exe)) = 4

(***************************************************************************)
(* Claims about the Poetry locator                                         *)
(***************************************************************************)
\* C15 (as stated): between configurations the discovery of one locator
\* runs at most once, whatever the interleaving of its callers.
C15_DiscoveryAtMostOnce == discoveries <= 1


\* ---------------------------------------------------------------------
\* File names put to is_python_executable_name.

MaxTail == 2

NameAlphabet == {"3", "1", ".", "w"}

Tails == UNION {[1..n -> NameAlphabet] : n \in 0..MaxTail}

\* The names of the unit tests (python, python3, python3.1, pythonw,
\* pythonw3, ...) and their neighbours: an optional leading character, the
\* word in lower or mixed case, a short tail, and optionally the word again.
TestedNames ==
    {pre \o tail \o post :
        pre \in {Chars("python"), <<"P">> \o Tail(Chars("python")),
                 <<"x">> \o Chars("python")},
        tail \in Tails,
        post \in {<<>>, Chars("python"), Chars("python") \o <<"3">>}}

NameInit ==
    /\ exe_name \in TestedNames /\ exe_accepted = None
    /\ NoCache /\ NoFiles /\ NoFold /\ NoExtract /\ NoEngine /\ NoPoetry /\ NoRace

TestName ==
    /\ exe_accepted = None
    /\ exe_accepted' = Some(IsPythonExecutableName(exe_name))
    /\ UNCHANGED <<exe_name, fs_vars, cache_vars, fold_vars, ex_vars, engine_vars,
                   poetry_vars, race_vars>>

NameNext == TestName

NameSpec == NameInit /\ [][NameNext]_vars

\* The whole name is python(\d+\.?)* .
WholeNameIsPython(cs) ==
    /\ StartsWith(cs, Chars("python"))
    /\ IsVersionTail(SubSeq(cs, 7, Len(cs)))

\* C17: a file name is accepted as a Python executable name exactly when the
\* whole lower-cased name is python followed by zero or more groups of
\* digits, each optionally followed by a dot.
C17_AcceptedIffWholeName ==
    exe_accepted # None =>
        (exe_accepted[1] <=> WholeNameIsPython(ToLowercase(exe_name)))

\* ---------------------------------------------------------------------
\* One Cache shared by threads: a store and two reads, each advancing one
\* lock-scoped or file-system step at a time.

RaceReaders == {"r1", "r2"}

RaceStoreInputs == {VenvEnv, CondaEnv, KeylessEnv}

\* The cache directory left by an earlier process: empty, or one record.
EarlierDisks ==
    {<<>>, FsWrite(<<>>, CacheFile(get_environment_key(ProjVenvEnv)[1]),
                   Serialized(update_mtimes_ctimes(LiveInit, ProjVenvEnv)), "written")}

\* Cache::new, possibly followed by a first get_all_environments.
RaceInit ==
    /\ dirs = {} /\ files = DOMAIN LiveInit
    /\ live = LiveInit
    /\ has_cache = TRUE
    /\ disk \in EarlierDisks
    /\ cache_is_dirty \in BOOLEAN
    /\ environments = IF cache_is_dirty THEN <<>> ELSE ReadCacheDir(disk)
    /\ last_store = None /\ latest = <<>>
    /\ retval = None
    /\ readers = [r \in RaceReaders |->
                    [pc |-> "idle", read |-> <<>>, after_store |-> FALSE, returned |-> None]]
    /\ storer = [pc |-> "idle", env |-> None, ok |-> FALSE]
    /\ NoFold /\ NoExtract /\ NoEngine /\ NoPoetry /\ NoName

race_rest == <<has_cache, last_store, latest, retval, fs_vars, fold_vars, ex_vars,
               engine_vars, poetry_vars, name_vars>>

\* get_all_environments, the load of the flag: a clean cache returns a clone
\* of the mirror at once.
ReaderLoad(r) ==
    /\ readers[r].pc = "idle"
    /\ readers' = [readers EXCEPT ![r] =
            IF ~cache_is_dirty
            THEN [pc |-> "done", read |-> <<>>, after_store |-> storer.pc = "done",
                  returned |-> Some(environments)]
            ELSE [pc |-> "reading", read |-> <<>>, after_store |-> storer.pc = "done",
                  returned |-> None]]
    /\ UNCHANGED <<environments, disk, cache_is_dirty, storer, race_rest>>

\* get_all_environments, the directory read into the local vector.
ReaderReadDir(r) ==
    /\ readers[r].pc = "reading"
    /\ readers' = [readers EXCEPT ![r].pc = "replace", ![r].read = ReadCacheDir(disk)]
    /\ UNCHANGED <<environments, disk, cache_is_dirty, storer, race_rest>>

\* get_all_environments, the mirror replaced under its lock.
ReaderReplace(r) ==
    /\ readers[r].pc = "replace"
    /\ environments' = readers[r].read
    /\ readers' = [readers EXCEPT ![r].pc = "clear"]
    /\ UNCHANGED <<disk, cache_is_dirty, storer, race_rest>>

\* get_all_environments, the flag cleared and the local vector returned.
ReaderClear(r) ==
    /\ readers[r].pc = "clear"
    /\ cache_is_dirty' = FALSE
    /\ readers' = [readers EXCEPT ![r].pc = "done",
                                  ![r].returned = Some(readers[r].read)]
    /\ UNCHANGED <<environments, disk, storer, race_rest>>

\* store, the push to the mirror under its lock.
StorePush ==
    \E env \in RaceStoreInputs :
        /\ storer.pc = "idle"
        /\ environments' = Append(environments, env)
        /\ storer' = [pc |-> IF IsSome(get_environment_key(env)) THEN "write" ELSE "done",
                      env |-> Some(env), ok |-> FALSE]
        /\ UNCHANGED <<disk, cache_is_dirty, readers, race_rest>>

\* store, the file written.
StoreWrite ==
    \E outcome \in WriteOutcomes :
        /\ storer.pc = "write"
        /\ disk' = FsWrite(disk, CacheFile(get_environment_key(storer.env[1])[1]),
                           Serialized(update_mtimes_ctimes(live, storer.env[1])), outcome)
        /\ storer' = [storer EXCEPT !.pc = IF outcome = "written" THEN "flag" ELSE "done"]
        /\ UNCHANGED <<environments, cache_is_dirty, readers, race_rest>>

\* store, the flag set after a successful write.
StoreFlag ==
    /\ storer.pc = "flag"
    /\ cache_is_dirty' = TRUE
    /\ storer' = [storer EXCEPT !.pc = "done", !.ok = TRUE]
    /\ UNCHANGED <<environments, disk, readers, race_rest>>

RaceNext ==
    \/ \E r \in RaceReaders : ReaderLoad(r)
    \/ \E r \in RaceReaders : ReaderReadDir(r)
    \/ \E r \in RaceReaders : ReaderReplace(r)
    \/ \E r \in RaceReaders : ReaderClear(r)
    \/ StorePush
    \/ StoreWrite
    \/ StoreFlag

RaceSpec == RaceInit /\ [][RaceNext]_vars

\* C18: after a successful store(e) has returned, every
\* get_all_environments() that starts returns an entry with e's identity,
\* also when another read was in the middle of a dirty re-read meanwhile.
C18_StoreSeenByLaterReads ==
    \A r \in DOMAIN readers :
        (storer.ok /\ readers[r].after_store /\ readers[r].returned # None) =>
            \E i \in 1..Len(readers[r].returned[1]) :
                KeyOf(readers[r].returned[1][i]) = get_environment_key(storer.env[1])

\* The call on top of the stack has had calls for some batches of the current
\* root, all returned, and has batches of that root not yet started.
BatchAwaitedBeforeNextStarts ==
    /\ ws_pc = "running" /\ ws_stack # <<>>
    /\ Top.stage = "enumerating"
    /\ Top.launched >= 1 /\ Top.batches # <<>>

\* C19: the batches of one level of the workspace scan run as concurrent
\* tasks joined at one barrier: no batch has been waited for while another
\* batch of the same root is still to be started.
C19_BatchesRunConcurrently == ~BatchAwaitedBeforeNextStarts

\* C20 as stated: the global-root scan runs the whole list of global roots
\* as one batch in one task, however many roots there are.
C20_GlobalRootsOneTask == Len(gtask) <= 1

\* C20: the global-root scan spawns one task per global root; each task
\* scans its own root only, and the scan ends when all of them have ended.
C20_OneTaskPerGlobalRoot ==
    glob_pc \in {"scanning", "done"} =>
        /\ Len(gtask) = Len(groots)
        /\ \A i \in 1..Len(gtask) :
               gtask[i] = "done" =>
                   \A c \in Range(scanned.global[i]) : IsPrefixOf(groots[i], c)
        /\ glob_pc = "done" => \A i \in 1..Len(gtask) : gtask[i] = "done"

\* Three global roots, two of them with candidates found by their own tasks.
C20_Witness ==
    /\ glob_pc = "done" /\ Len(groots) >= 3
    /\ \E i, j \in 1..Len(gtask) :
           i # j /\ scanned.global[i] # <<>> /\ scanned.global[j] # <<>>

\* ---------------------------------------------------------------------
\* ProbeSpec: the workspace branch of
\* find_python_environments_in_paths_with_locators on one root.

\* paths.iter().flat_map(|p| find_executable(p)) for the one root.
Probe ==
    /\ IsSome(ex_path) /\ ex_result = None
    /\ ex_result' = Some(FlatMapOption(dirs, files, <<ex_path[1]>>))
    /\ UNCHANGED <<ex_path, fs_vars, cache_vars, fold_vars, engine_vars, poetry_vars,
                   name_vars, race_vars>>

ProbeNext == Probe

ProbeSpec == ExtractInit /\ [][ProbeNext]_vars

ProbedLocations(root) ==
    <<Join(Join(root, "bin"), "python"), Join(Join(root, "bin"), "python3"),
      Join(root, "python"), Join(root, "python3")>>

LockTasks == {"find", "from", "configure"}

Mutexes == {"environments", "manager", "project_dirs", "poetry_executable", "mirror"}

Free(l) == lock_holder[l] = "free"

\* Mutex::lock returns the guard to t.
Acquire(t, l) == [lock_holder EXCEPT ![l] = t]

ReleaseNothing(ls) == lock_holder

\* The guards of the mutexes ls are dropped.
Release(ls) == [l \in DOMAIN lock_holder |-> IF l \in ls THEN "free" ELSE lock_holder[l]]

\* A fresh locator and a fresh cache; the poetry executable is installed or
\* not; the tasks have made no call.
LockInit ==
    /\ poetry_is_file \in BOOLEAN
    /\ project_dirs \in {<<>>, <<Ws>>} /\ searched = FALSE
    /\ poetry_envs = <<>> /\ poetry_manager = None /\ discoveries = 0
    /\ thr = [t \in LockTasks |-> [pc |-> "idle", made |-> 0, listed |-> <<>>, answer |-> None]]
    /\ lock_holder = [l \in Mutexes |-> "free"]
    /\ dirs = {} /\ files = DOMAIN LiveInit /\ live = LiveInit
    /\ has_cache = TRUE /\ cache_is_dirty = TRUE /\ environments = <<>> /\ disk = <<>>
    /\ last_store = None /\ latest = <<>> /\ retval = None
    /\ NoFold /\ NoExtract /\ NoEngine /\ NoName /\ NoRace

lock_rest == <<poetry_is_file, has_cache, last_store, latest, retval, fs_vars, fold_vars,
               ex_vars, engine_vars, name_vars, race_vars>>

\* find_with_cache returns answer to t: try_from is over, find goes on to
\* report the environments of the answer.
Answered(t, answer) ==
    IF t = "find" /\ answer # None
    THEN [thr EXCEPT ![t] = [pc |-> "reporting", made |-> thr[t].made,
                             listed |-> answer[1].environments, answer |-> answer]]
    ELSE [thr EXCEPT ![t] = [pc |-> "idle", made |-> thr[t].made + 1,
                             listed |-> <<>>, answer |-> answer]]

\* self.environments.lock()
LockMemo(t) ==
    /\ thr[t].pc = "idle" /\ thr[t].made < MaxCalls
    /\ Free("environments")
    /\ lock_holder' = Acquire(t, "environments")
    /\ thr' = [thr EXCEPT ![t].pc = "memo"]
    /\ UNCHANGED <<project_dirs, searched, poetry_envs, poetry_manager, discoveries,
                   environments, disk, cache_is_dirty, lock_rest>>

\* The memo is not empty: self.manager.lock(), inside the guard of
\* environments.
MemoManager(t) ==
    /\ thr[t].pc = "memo" /\ poetry_envs # <<>>
    /\ Free("manager")
    /\ lock_holder' = Acquire(t, "manager")
    /\ thr' = [thr EXCEPT ![t].pc = "memo_manager"]
    /\ UNCHANGED <<project_dirs, searched, poetry_envs, poetry_manager, discoveries,
                   environments, disk, cache_is_dirty, lock_rest>>

\* With a manager the memo is the answer; both guards are dropped.
MemoAnswer(t) ==
    /\ thr[t].pc = "memo_manager"
    /\ IF IsSome(poetry_manager)
       THEN /\ thr' = Answered(t, Some(LocatorResult(poetry_envs)))
            /\ lock_holder' = Release({"environments", "manager"})
       ELSE /\ thr' = [thr EXCEPT ![t].pc = "memo_searched"]
            /\ lock_holder' = Release({"manager"})
    /\ UNCHANGED <<project_dirs, searched, poetry_envs, poetry_manager, discoveries,
                   environments, disk, cache_is_dirty, lock_rest>>

\* No answer from the memo: nothing once searched, else the guard is dropped
\* and the search begins.
MemoSearched(t) ==
    /\ \/ thr[t].pc = "memo" /\ poetry_envs = <<>>
       \/ thr[t].pc = "memo_searched"
    /\ thr' = IF searched THEN Answered(t, None) ELSE [thr EXCEPT ![t].pc = "lookup"]
    /\ lock_holder' = Release({"environments"})
    /\ UNCHANGED <<project_dirs, searched, poetry_envs, poetry_manager, discoveries,
                   environments, disk, cache_is_dirty, lock_rest>>

\* self.poetry_executable.lock(): the guard lives to the end of the
\* statement that runs PoetryManager::find.
LockExecutable(t) ==
    /\ thr[t].pc = "lookup"
    /\ Free("poetry_executable")
    /\ lock_holder' = Acquire(t, "poetry_executable")
    /\ thr' = [thr EXCEPT ![t].pc = "finding"]
    /\ UNCHANGED <<project_dirs, searched, poetry_envs, poetry_manager, discoveries,
                   environments, disk, cache_is_dirty, lock_rest>>

\* PoetryManager::find; without a manager the search flag is set and
\* nothing is answered.
FindManager(t) ==
    /\ thr[t].pc = "finding"
    /\ discoveries' = discoveries + 1
    /\ lock_holder' = Release({"poetry_executable"})
    /\ IF poetry_is_file
       THEN searched' = searched /\ thr' = [thr EXCEPT ![t].pc = "set_manager"]
       ELSE searched' = TRUE /\ thr' = Answered(t, None)
    /\ UNCHANGED <<project_dirs, poetry_envs, poetry_manager,
                   environments, disk, cache_is_dirty, lock_rest>>

\* self.manager.lock(), replace, drop.
SetManager(t) ==
    /\ thr[t].pc = "set_manager"
    /\ Free("manager")
    /\ poetry_manager' = Some(PoetryManager)
    /\ thr' = [thr EXCEPT ![t].pc = "listing"]
    /\ UNCHANGED <<lock_holder, project_dirs, searched, poetry_envs, discoveries,
                   environments, disk, cache_is_dirty, lock_rest>>

\* self.project_dirs.lock(), clone; get_environments_for_folders.
ListEnvironments(t) ==
    /\ thr[t].pc = "listing"
    /\ Free("project_dirs")
    /\ thr' = [thr EXCEPT ![t].pc = "commit",
                          ![t].listed = get_environments_for_folders(project_dirs)]
    /\ UNCHANGED <<lock_holder, project_dirs, searched, poetry_envs, poetry_manager,
                   discoveries, environments, disk, cache_is_dirty, lock_rest>>

\* self.environments.lock(): the memo replaced, the search flag set, the
\* result answered.
CommitMemo(t) ==
    /\ thr[t].pc = "commit"
    /\ Free("environments")
    /\ poetry_envs' = thr[t].listed
    /\ searched' = TRUE
    /\ thr' = Answered(t, Some(LocatorResult(thr[t].listed)))
    /\ UNCHANGED <<lock_holder, project_dirs, poetry_manager, discoveries,
                   environments, disk, cache_is_dirty, lock_rest>>

\* find reports the next environment: the CacheReporter's store takes the
\* lock of the mirror.
ReportLock ==
    /\ thr["find"].pc = "reporting" /\ thr["find"].listed # <<>>
    /\ Free("mirror")
    /\ lock_holder' = Acquire("find", "mirror")
    /\ thr' = [thr EXCEPT !["find"].pc = "storing"]
    /\ UNCHANGED <<project_dirs, searched, poetry_envs, poetry_manager, discoveries,
                   environments, disk, cache_is_dirty, lock_rest>>

\* store: the push, the guard dropped, the file written, the flag set.
ReportStore ==
    /\ thr["find"].pc = "storing"
    /\ LET r == Store(environments, disk, cache_is_dirty, live,
                      Head(thr["find"].listed), "written")
       IN  /\ environments' = r.environments
           /\ disk' = r.disk
           /\ cache_is_dirty' = r.cache_is_dirty
    /\ lock_holder' = Release({"mirror"})
    /\ thr' = [thr EXCEPT !["find"].pc = "reporting",
                          !["find"].listed = Tail(thr["find"].listed)]
    /\ UNCHANGED <<project_dirs, searched, poetry_envs, poetry_manager, discoveries,
                   lock_rest>>

\* find has reported every environment of the answer.
ReportDone ==
    /\ thr["find"].pc = "reporting" /\ thr["find"].listed = <<>>
    /\ thr' = [thr EXCEPT !["find"].pc = "idle", !["find"].made = @ + 1]
    /\ UNCHANGED <<lock_holder, project_dirs, searched, poetry_envs, poetry_manager,
                   discoveries, environments, disk, cache_is_dirty, lock_rest>>

\* configure: with search paths, project_dirs.lock().clear().
ConfigureClear ==
    /\ thr["configure"].pc = "idle" /\ thr["configure"].made < MaxCalls
    /\ \E search_paths_given \in {<<>>, <<Ws>>, <<OptVenv>>} :
        IF search_paths_given = <<>>
        THEN /\ thr' = [thr EXCEPT !["configure"].pc = "executable"]
             /\ project_dirs' = project_dirs
        ELSE /\ Free("project_dirs")
             /\ project_dirs' = <<>>
             /\ thr' = [thr EXCEPT !["configure"].pc = "extend",
                                   !["configure"].listed = search_paths_given]
    /\ UNCHANGED <<lock_holder, searched, poetry_envs, poetry_manager, discoveries,
                   environments, disk, cache_is_dirty, lock_rest>>

\* configure: project_dirs.lock().extend(search_paths).
ConfigureExtend ==
    /\ thr["configure"].pc = "extend"
    /\ Free("project_dirs")
    /\ project_dirs' = project_dirs \o thr["configure"].listed
    /\ thr' = [thr EXCEPT !["configure"].pc = "executable", !["configure"].listed = <<>>]
    /\ UNCHANGED <<lock_holder, searched, poetry_envs, poetry_manager, discoveries,
                   environments, disk, cache_is_dirty, lock_rest>>

\* configure: with an executable given, poetry_executable.lock().replace(exe).
ConfigureExecutable ==
    /\ thr["configure"].pc = "executable"
    /\ \E given \in BOOLEAN : given => Free("poetry_executable")
    /\ thr' = [thr EXCEPT !["configure"].pc = "idle", !["configure"].made = @ + 1]
    /\ UNCHANGED <<lock_holder, project_dirs, searched, poetry_envs, poetry_manager,
                   discoveries, environments, disk, cache_is_dirty, lock_rest>>

\* One step of the task t.
TaskStep(t) ==
    \/ t \in {"find", "from"} /\ LockMemo(t)
    \/ t \in {"find", "from"} /\ MemoManager(t)
    \/ t \in {"find", "from"} /\ MemoAnswer(t)
    \/ t \in {"find", "from"} /\ MemoSearched(t)
    \/ t \in {"find", "from"} /\ LockExecutable(t)
    \/ t \in {"find", "from"} /\ FindManager(t)
    \/ t \in {"find", "from"} /\ SetManager(t)
    \/ t \in {"find", "from"} /\ ListEnvironments(t)
    \/ t \in {"find", "from"} /\ CommitMemo(t)
    \/ t = "find" /\ (ReportLock \/ ReportStore \/ ReportDone)
    \/ t = "configure" /\ (ConfigureClear \/ ConfigureExtend \/ ConfigureExecutable)

LockNext == \E t \in LockTasks : TaskStep(t)

LockSpec == LockInit /\ [][LockNext]_vars

\* The scheduler runs every task that can run.
LockFairSpec == LockSpec /\ \A t \in LockTasks : WF_vars(TaskStep(t))

\* C22: no task holds two mutexes at the same time.
C22_OneLockAtATime ==
    \A t \in LockTasks : Cardinality({l \in DOMAIN lock_holder : lock_holder[l] = t}) <= 1


EnvironmentsOf(answer) == IF answer = None THEN <<>> ELSE answer[1].environments

\* C24: a call that returns is answered with the environments of the
\* configuration in force, never with a memo built under an earlier one.
C24_AnsweredUnderNewConfiguration ==
    [][\A t \in DOMAIN thr :
          thr'[t].made = thr[t].made + 1 =>
              EnvironmentsOf(thr'[t].answer) =
                  IF poetry_is_file THEN get_environments_for_folders(project_dirs)
                  ELSE <<>>]_vars


(***************************************************************************)
(* Further claims about find_and_report_envs                               *)
(***************************************************************************)
AllFindsReturned ==
    /\ Len(find_pc) = Len(locators)
    /\ \A i \in 1..Len(find_pc) : find_pc[i] = "done"

\* C25: the detached Conda probe is started once per call, after every
\* locator's find has returned, and the call does not return before it has
\* been started; nothing waits for it to end.
C25_ProbeOnceAfterFinds ==
    /\ [](/\ conda_pc # "idle" => AllFindsReturned
          /\ main_pc = "returned" => conda_pc \in {"running", "done"})
    /\ [][conda_pc' # conda_pc =>
             \/ conda_pc = "idle" /\ conda_pc' = "running" /\ AllFindsReturned
             \/ conda_pc = "running" /\ conda_pc' = "done"]_vars

\* The probe runs before the global-root scan and the workspace scan have
\* begun, after the finds of three locators.
C25_Witness ==
    /\ conda_pc = "running" /\ Len(find_pc) = 3
    /\ glob_pc = "spawned" /\ ws_pc = "spawned"


\* The registered locators that declare category, by position.
Declaring(category) ==
    {k \in 1..Len(locators) : category \in Range(supported_categories(locators[k]))}

LastDeclaring(category) ==
    CHOOSE k \in Declaring(category) : \A j \in Declaring(category) : j <= k

\* A recorded executable of env has readable live times that differ from the
\* recorded ones.
ReadableMismatch(env) ==
    /\ IsSome(env.times)
    /\ \E p \in DOMAIN env.times[1] :
        /\ IsSome(get_mtime_ctime(live, p))
        /\ \/ get_mtime_ctime(live, p)[1].mtime # env.times[1][p].mtime
           \/ get_mtime_ctime(live, p)[1].ctime # env.times[1][p].ctime

\* The locator registered last for the category of env declines its executable.
Declined(env) ==
    /\ IsSome(env.executable) /\ Declaring(env.category) # {}
    /\ ~IsSome(try_from(locators[LastDeclaring(env.category)], env.executable[1]))

\* Validation of the cached environment env comes to nothing.
FailsValidation(env) ==
    \/ ~IsSome(env.executable)
    \/ Declaring(env.category) = {}
    \/ ReadableMismatch(env)
    \/ Declined(env)

\* C26 as stated: no step of Phase A creates, rewrites or deletes a cache
\* file.
C26_PhaseALeavesDiskAlone ==
    [][(main_pc \in {"start", "validating"}) => (disk' = disk)]_vars

\* C26, amended: through Phase A a cached entry that is withheld for a
\* fingerprint mismatch, has no locator or is declined is not reported, its
\* file still holds its record, and the next get_all_environments() returns
\* it.
C26_FailedEntriesKept ==
    main_pc \in {"validating", "refresh"} =>
        \A i \in 1..Len(cached) :
            FailsValidation(cached[i]) =>
                /\ reports.validate[i] = <<>>
                /\ CacheFile(get_environment_key(cached[i])[1]) \in DOMAIN disk
                /\ disk[CacheFile(get_environment_key(cached[i])[1])] = Serialized(cached[i])
                /\ cached[i] \in Range(GetAllEnvironments(environments, disk,
                                                         cache_is_dirty).returned)

\* Phase A is over: one entry was withheld for a mismatch, another was
\* reported and stored again.
C26_Witness ==
    /\ main_pc = "refresh"
    /\ \E i, j \in 1..Len(cached) :
        /\ Declaring(cached[i].category) # {} /\ ReadableMismatch(cached[i])
        /\ reports.validate[j] # <<>>
        /\ cache_is_dirty

\* C27: the validating task of a cached entry that has a locator and no
\* readable mismatch reports what try_from returns for its executable: the
\* manager of that environment if it has one and then that environment, not
\* the cached record; and nothing when try_from returns nothing.
C27_ReportsWhatTryFromReturns ==
    \A i \in 1..Len(vtask) :
        (/\ vtask[i] = "done"
         /\ Declaring(cached[i].category) # {}
         /\ ~ReadableMismatch(cached[i])) =>
            LET found == try_from(locators[LastDeclaring(cached[i].category)],
                                  cached[i].executable[1])
            IN  IF found = None THEN reports.validate[i] = <<>>
                ELSE IF found[1].manager = None
                THEN reports.validate[i] = <<EnvironmentReport(found[1])>>
                ELSE reports.validate[i] = <<ManagerReport(found[1].manager[1]),
                                             EnvironmentReport(found[1])>>

\* A validating task reported a manager and then an environment that
\* differs from the cached record, which holds fingerprints.
C27_Witness ==
    \E i \in 1..Len(vtask) :
        /\ vtask[i] = "done" /\ Len(reports.validate[i]) = 2
        /\ reports.validate[i][1].kind = "manager"
        /\ reports.validate[i][2].kind = "environment"
        /\ IsSome(cached[i].times)
        /\ reports.validate[i][2].env[1] # cached[i]


(***************************************************************************)
(* Further claims about the cache                                          *)
(***************************************************************************)
\* The identity keys of the environments of a list.
IdentitiesOf(envs) == {get_environment_key(envs[i]) : i \in 1..Len(envs)}

\* C28: whenever the dirty flag is clear, the mirror holds exactly the
\* environments decodable from the files of the cache directory: the same
\* identities, one entry each.
C28_CleanMirrorIsDisk ==
    (has_cache /\ ~cache_is_dirty) =>
        /\ IdentitiesOf(environments) = IdentitiesOf(ReadCacheDir(disk))
        /\ Len(environments) = Len(ReadCacheDir(disk))

(***************************************************************************)
(* Further claims about Phase A                                            *)
(***************************************************************************)
\* A recorded executable of env has no readable live times.
UnreadableFingerprint(env) ==
    /\ IsSome(env.times)
    /\ \E p \in DOMAIN env.times[1] : ~IsSome(get_mtime_ctime(live, p))

\* C29: a validating task whose entry has a locator gives up before
\* try_from only for a readable live time that differs from the recorded
\* one; an unreadable executable is no mismatch, and without a readable
\* mismatch the entry is reported exactly when try_from returns it.
C29_UnreadableIsNoMismatch ==
    \A i \in 1..Len(vtask) :
        (vtask[i] = "done" /\ Declaring(cached[i].category) # {}) =>
            /\ (reports.validate[i] = <<>> /\ ~Declined(cached[i]))
                   => ReadableMismatch(cached[i])
            /\ ~ReadableMismatch(cached[i])
                   => (reports.validate[i] # <<>> <=> ~Declined(cached[i]))

\* An entry one of whose recorded executables can no longer be read was
\* reported by its validating task.
C29_Witness ==
    \E i \in 1..Len(vtask) :
        /\ vtask[i] = "done" /\ UnreadableFingerprint(cached[i])
        /\ reports.validate[i] # <<>>

\* C30: a validating task asks only the locator registered last for the
\* category of its entry: what it reports is that locator's answer, and it
\* reports nothing when that locator declines, whatever the other locators
\* of the category would answer.
C30_LastRegisteredValidates ==
    \A i \in 1..Len(vtask) :
        (vtask[i] = "done" /\ Declaring(cached[i].category) # {}) =>
            LET last == locators[LastDeclaring(cached[i].category)]
                found == try_from(last, cached[i].executable[1])
            IN  /\ found = None => reports.validate[i] = <<>>
                /\ reports.validate[i] # <<>> =>
                       (found # None /\ Environments(reports.validate[i]) = {found[1]})

\* Two locators declare the category of a cached entry; the one registered
\* last declined it and nothing was reported, though the other accepts it.
C30_Witness ==
    \E i \in 1..Len(vtask) :
        /\ vtask[i] = "done" /\ reports.validate[i] = <<>>
        /\ Cardinality(Declaring(cached[i].category)) = 2
        /\ ~ReadableMismatch(cached[i])
        /\ \E k \in Declaring(cached[i].category) :
               IsSome(try_from(locators[k], cached[i].executable[1]))

\* C31: every report is made before find_and_report_envs returns. Once the
\* call has returned no step adds to or changes what was reported, and the
\* step of the detached Conda probe, whose closure holds the Conda locator
\* and the configured executable but not the reporter, reports nothing
\* whenever it runs.
C31_NoReportAfterReturn ==
    [][/\ (main_pc = "returned") => (reports' = reports)
       /\ (conda_pc = "running" /\ conda_pc' = "done") => (reports' = reports)]_vars

\* The call has returned with environments reported by the finds and by the
\* scans, the caller has read the cache, and the detached probe has ended.
C31_Witness ==
    /\ main_pc = "returned" /\ conda_pc = "done"
    /\ Flatten(reports.find) # <<>> /\ ScanReports # <<>>
    /\ IsSome(retval)
====
